---- MODULE Spec2Model ----
(***************************************************************************)
(* Model of the krypto agent core: the tool registry (tools/registry.py,   *)
(* tools/base.py), the streaming decoder (client/llm_client.py) and the    *)
(* agent loop (agent/agent.py, agent/session.py, context/manager.py).      *)
(* Three specifications share the variables: SpecRegistry, SpecDecoder and *)
(* Spec (the agent loop); each leaves the other parts' variables alone.    *)
(***************************************************************************)
EXTENDS Integers, Sequences, FiniteSets, TLC

VARIABLES
    \* the registry
    tools,          \* ToolRegistry._tools: registered tool names, in insertion order
    allowed_tools,  \* Config.allowed_tools: the allow-list (<<>> when none)
    regOut,         \* what the last ToolRegistry.invoke did (NoCall before any)
    \* one chat_completion call
    dpc,            \* "attempt": about to call the endpoint, "stream": reading
                    \* chunks, "done": the generator ended, "raised": it raised
    stream,         \* the stream flag of the call
    attempt,        \* the loop variable of the retry loop
    tool_calls,     \* _stream_response's index -> {id, name, arguments}, in insertion order
    finish_reason,  \* _stream_response's finish_reason
    usage,          \* _stream_response's usage (TRUE when set)
    dout,           \* the StreamEvents yielded so far
    sleeps,         \* the waits passed to asyncio.sleep, in milliseconds
    wire,           \* the chunks the endpoint delivered in the current attempt
    nframes,        \* the number of chunks delivered in this call
    lastFault,      \* the kind of the last fault an attempt ended with
    faultLog,       \* the faults the attempts of this call ended with, in order
    creates,        \* the number of calls of client.chat.completions.create
    \* one Agent and its Session
    apc,            \* "idle", "turn": at the top of a loop iteration, "exec": in
                    \* the for loop over the tool calls, "done": run ended,
                    \* "aborted": run ended by a raised fault
    turn,           \* the loop variable of _agentic_loop
    turn_count,     \* Session._turn_count
    recent_tool_calls,  \* the signatures of the previous turn
    agent_tool_calls,   \* the ToolCalls collected in the current turn (tool_calls)
    callIdx,        \* the position of the for loop in agent_tool_calls
    tool_call_results,  \* the ToolResultMessages queued in the current turn
    final_response, \* Agent.run's final_response
    messages,       \* ContextManager._messages
    events,         \* the AgentEvents yielded so far, each with the turn it came from
    modelCalls,     \* the number of chat_completion calls made
    turnCalls,      \* the tool calls each turn of the run collected
    invoked,        \* the registry invokes made: turn and call id
    trace,          \* the steps of the loop in program order: model call, end of
                    \* its stream, context appends, notifications, invokes
    received,       \* the StreamEvents each chat_completion call gave the loop
    runs,           \* the number of Agent.run calls made on the Agent
    system_prompt   \* ContextManager._system_prompt

regVars == <<tools, allowed_tools, regOut>>

decVars == <<dpc, stream, attempt, tool_calls, finish_reason, usage, dout, sleeps,
             wire, nframes, lastFault, faultLog, creates>>

agentVars == <<apc, turn, turn_count, recent_tool_calls, agent_tool_calls, callIdx,
               tool_call_results, final_response, messages, events, modelCalls,
               turnCalls, invoked, trace, received, runs, system_prompt>>

vars == <<regVars, decVars, agentVars>>

(***************************************************************************)
(* Values                                                                  *)
(***************************************************************************)

\* Python's None where a string is expected
None == "<None>"

\* JSON values of tool arguments: a string or a number
Str(s) == [t |-> "str", v |-> s]
Num(s) == [t |-> "int", v |-> s]

\* an argument mapping is a Python dict: key/value pairs in insertion order
Keys(d) == {d[i][1] : i \in DOMAIN d}
HasKey(d, k) == \E i \in DOMAIN d : d[i][1] = k
ValueOf(d, k) == d[CHOOSE i \in DOMAIN d : d[i][1] = k][2]

\* str.join
RECURSIVE Join(_, _)
Join(sep, ss) ==
    IF ss = <<>> THEN ""
    ELSE IF Len(ss) = 1 THEN ss[1]
    ELSE ss[1] \o sep \o Join(sep, Tail(ss))

(***************************************************************************)
(* Tools (tools/base.py, tools/builtin)                                    *)
(***************************************************************************)

\* a field of a pydantic parameter model
Field(n, req, ty) == [name |-> n, required |-> req, type |-> ty]

GlobToolParams ==
    << Field("pattern", TRUE, "str"), Field("path", FALSE, "str") >>

WriteFileParams ==
    << Field("path", TRUE, "str"), Field("content", TRUE, "str"),
       Field("create_directories", FALSE, "bool") >>

\* The tools of the model.  glob and write_file are built-in tools whose schema
\* is a pydantic model class; dict_tool is a Tool whose schema is a JSON-schema
\* dict (with the same fields as WriteFileParams); base_tool is a Tool that
\* does not override Tool.schema, so reading its schema raises.
ToolNames == {"glob", "write_file", "dict_tool", "base_tool"}

ToolCatalog(name) ==
    CASE name = "glob"       -> [name |-> name, schemaKind |-> "model", fields |-> GlobToolParams]
      [] name = "write_file" -> [name |-> name, schemaKind |-> "model", fields |-> WriteFileParams]
      [] name = "dict_tool"  -> [name |-> name, schemaKind |-> "dict", fields |-> WriteFileParams]
      [] OTHER               -> [name |-> name, schemaKind |-> "raises", fields |-> <<>>]

\* get_all_builtin_tools, restricted to the built-in tools of the model
BuiltinTools == <<"write_file", "glob">>

\* ToolResult
ToolResult(s, o, e, m) ==
    [success |-> s, output |-> o, error |-> e, metadata |-> m, truncated |-> FALSE]

\* metadata values: a dict (the keys it has, and their values) or, as Python
\* builds from {"tool_name", name}, a set
EmptyMeta ==
    [kind |-> "dict", keys |-> {}, tool_name |-> "", validation_errors |-> <<>>, elems |-> {}]
DictMeta(n, hasErrs, errs) ==
    [kind |-> "dict",
     keys |-> IF hasErrs THEN {"tool_name", "validation_errors"} ELSE {"tool_name"},
     tool_name |-> n, validation_errors |-> errs, elems |-> {}]
SetMeta(elems) ==
    [kind |-> "set", keys |-> {}, tool_name |-> "", validation_errors |-> <<>>, elems |-> elems]

\* ToolResult.error_result / ToolResult.success_result
error_result_unset(e, m) == ToolResult(FALSE, "", None, m)

error_result(e, m) == ToolResult(FALSE, "", e, m)

success_result(o, m) == ToolResult(TRUE, o, None, m)

\* ToolResult.to_model_output
to_model_output_error_only(r) ==
    IF r.success THEN r.output
    ELSE "Error: " \o r.error

to_model_output(r) ==
    IF r.success THEN r.output
    ELSE "Error: " \o r.error \o "\n\nOutput:\n" \o r.output

(***************************************************************************)
(* Validation (Tool.validate_params)                                       *)
(***************************************************************************)

TypeOk(ty, val) ==
    CASE ty = "str"  -> val.t = "str"
      [] ty = "bool" -> val.t = "bool"
      [] OTHER       -> TRUE

\* what pydantic reports for one field of the model: nothing, or one reason
FieldReason(f, params) ==
    IF ~HasKey(params, f.name)
    THEN IF f.required THEN "Field required" ELSE ""
    ELSE IF TypeOk(f.type, ValueOf(params, f.name)) THEN ""
         ELSE IF f.type = "str" THEN "Input should be a valid string"
              ELSE "Input should be a valid boolean"

\* the fields of a parameter description that the arguments violate, in field order
ViolatedFields(fields, params) ==
    SelectSeq(fields, LAMBDA f : FieldReason(f, params) # "")

ParameterMessage(f, params) ==
    "Parameter '" \o f.name \o "': " \o FieldReason(f, params)

\* the error list of a pydantic model class schema
ModelErrors(fields, params) ==
    LET bad == ViolatedFields(fields, params)
    IN  [i \in DOMAIN bad |-> ParameterMessage(bad[i], params)]

\* Tool.validate_params: reading self.schema may raise (outside any try); only a
\* pydantic model class is validated, any other schema gives no errors.
validate_params(tool, params) ==
    IF tool.schemaKind = "raises"
    THEN [raised |-> TRUE, errors |-> <<>>]
    ELSE IF tool.schemaKind = "model"
         THEN [raised |-> FALSE, errors |-> ModelErrors(tool.fields, params)]
         ELSE [raised |-> FALSE, errors |-> <<>>]

(***************************************************************************)
(* Registry (ToolRegistry)                                                 *)
(***************************************************************************)

InSeq(s, x) == \E i \in DOMAIN s : s[i] = x

NoTool == [name |-> None, schemaKind |-> "none", fields |-> <<>>]

\* ToolRegistry.get: a lookup in _tools alone
GetAnyFallback(reg, name) ==
    IF InSeq(reg, name) THEN ToolCatalog(name)
    ELSE IF reg # <<>> THEN ToolCatalog(reg[1]) ELSE NoTool

Get(reg, name) ==
    IF InSeq(reg, name) THEN ToolCatalog(name) ELSE NoTool

\* ToolRegistry.get_tools
get_tools(reg, allowed) ==
    IF allowed # <<>>
    THEN SelectSeq(reg, LAMBDA n : InSeq(allowed, n))
    ELSE reg

\* ToolRegistry.get_schemas: one schema per advertised tool, here its name
get_schemas(reg, allowed) == get_tools(reg, allowed)

\* what a tool's execute does with valid arguments: it returns a successful
\* result, returns a failed result of its own, or raises an Exception
Behaviours == {"ok", "fail", "raise"}

FaultText == "boom"

Execute(tool, params, beh) ==
    CASE beh = "ok"   -> [raised |-> FALSE, result |-> success_result("out:" \o tool.name, EmptyMeta)]
      [] beh = "fail" -> [raised |-> FALSE, result |-> error_result("failed:" \o tool.name, EmptyMeta)]
      [] OTHER        -> [raised |-> TRUE,  result |-> error_result(FaultText, EmptyMeta)]

UnknownToolResult(name) ==
    error_result("Unknown tool: " \o name, DictMeta(name, FALSE, <<>>))

InvalidParamsResult(name, errors) ==
    error_result("Invalid parameters: " \o Join(";", errors), DictMeta(name, TRUE, errors))

InternalErrorResult(name, text) ==
    error_result("Internal error: " \o text, SetMeta({"tool_name", name}))

NoResult == ToolResult(FALSE, "", None, EmptyMeta)

\* the outcome of one invoke: whether it raised to its caller, the ToolResult it
\* returned, and whether validation and execute ran
Outcome(r, res, v, x) == [raised |-> r, result |-> res, validated |-> v, executed |-> x]

\* ToolRegistry.invoke
InvokeUnguarded(reg, name, params, beh) ==
    LET tool == Get(reg, name)
    IN  IF tool = NoTool
        THEN Outcome(FALSE, UnknownToolResult(name), FALSE, FALSE)
        ELSE LET val == validate_params(tool, params)
             IN  IF val.raised
                 THEN Outcome(TRUE, NoResult, TRUE, FALSE)
                 ELSE IF val.errors # <<>>
                      THEN Outcome(FALSE, InvalidParamsResult(name, val.errors), TRUE, FALSE)
                      ELSE LET ex == Execute(tool, params, beh)
                           IN  IF ex.raised
                               THEN Outcome(TRUE, NoResult, TRUE, TRUE)
                               ELSE Outcome(FALSE, ex.result, TRUE, TRUE)

Invoke(reg, name, params, beh) ==
    LET tool == Get(reg, name)
    IN  IF tool = NoTool
        THEN Outcome(FALSE, UnknownToolResult(name), FALSE, FALSE)
        ELSE LET val == validate_params(tool, params)
             IN  IF val.raised
                 THEN Outcome(TRUE, NoResult, TRUE, FALSE)
                 ELSE IF val.errors # <<>>
                      THEN Outcome(FALSE, InvalidParamsResult(name, val.errors), TRUE, FALSE)
                      ELSE LET ex == Execute(tool, params, beh)
                           IN  IF ex.raised
                               THEN Outcome(FALSE, InternalErrorResult(name, ex.result.error), TRUE, TRUE)
                               ELSE Outcome(FALSE, ex.result, TRUE, TRUE)

\* argument mappings given to invoke
ParamSets ==
    { <<>>,
      << <<"pattern", Str("*")>> >>,
      << <<"path", Str("a.py")>> >>,
      << <<"path", Str("a.py")>>, <<"content", Str("x")>> >>,
      << <<"content", Str("x")>>, <<"path", Str("a.py")>> >>,
      << <<"path", Num("1")>>, <<"content", Str("x")>> >> }

\* names given to invoke: the tools and a name no tool has
InvokeNames == ToolNames \cup {"nope"}

AllowLists == { <<>>, <<"glob">>, <<"glob", "dict_tool">> }

NoCall ==
    [called |-> FALSE, name |-> "", params |-> <<>>, beh |-> "ok", reg |-> <<>>,
     out |-> Outcome(FALSE, NoResult, FALSE, FALSE)]

\* ToolRegistry.register
Register(name) ==
    /\ tools' = IF InSeq(tools, name) THEN tools ELSE Append(tools, name)
    /\ regOut' = NoCall
    /\ UNCHANGED <<allowed_tools, decVars, agentVars>>

\* ToolRegistry.unregister
Unregister(name) ==
    /\ tools' = SelectSeq(tools, LAMBDA n : n # name)
    /\ regOut' = NoCall
    /\ UNCHANGED <<allowed_tools, decVars, agentVars>>

\* one call of ToolRegistry.invoke
InvokeCall(name, params, beh) ==
    /\ regOut' = [called |-> TRUE, name |-> name, params |-> params, beh |-> beh,
                  reg |-> tools, out |-> Invoke(tools, name, params, beh)]
    /\ UNCHANGED <<tools, allowed_tools, decVars, agentVars>>

(***************************************************************************)
(* Streaming decoder (LLMClient.chat_completion, _stream_response)         *)
(***************************************************************************)

\* LLMClient._max_retries
max_retries == 3

\* the chunks one chat_completion call may receive, over all its attempts
MaxFrames == 2

\* StreamEvent
StreamEvent(ty, content, id, name, delta, args, fr, us, err) ==
    [type |-> ty, content |-> content, call_id |-> id, name |-> name,
     arguments_delta |-> delta, arguments |-> args, finish_reason |-> fr,
     usage |-> us, error |-> err]

TextDelta(c) == StreamEvent("TEXT_DELTA", c, "", "", "", <<>>, None, FALSE, None)

ToolCallStart(id, name) ==
    StreamEvent("TOOL_CALL_DETAILS_START", "", id, name, "", <<>>, None, FALSE, None)

ToolCallDelta(id, name, chunk) ==
    StreamEvent("TOOL_CALL__DETAILS_DELTA", "", id, name, chunk, <<>>, None, FALSE, None)

ToolCallComplete(id, name, args) ==
    StreamEvent("TOOL_CALL_DETAILS_COMPLETE", "", id, name, "", args, None, FALSE, None)

MessageComplete(fr, us) ==
    StreamEvent("MESSAGE_COMPLETE", "", "", "", "", <<>>, fr, us, None)

ErrorEvent(msg) == StreamEvent("ERROR", "", "", "", "", <<>>, None, FALSE, msg)

\* client.response.parse_tool_call_arguments: the text of a JSON object gives
\* its mapping, any other text gives the empty mapping
parse_tool_call_arguments(s) ==
    CASE s = "{\"pattern\":\"*\"}" -> << <<"pattern", Str("*")>> >>
      [] s = "{\"path\":\"a.py\"}" -> << <<"path", Str("a.py")>> >>
      [] OTHER -> <<>>

\* one tool-call fragment of a chunk: {index, id?, function: {name?, arguments?}}
Fragment(idx, id, fn, name, args) ==
    [index |-> idx, id |-> id, has_function |-> fn, name |-> name, arguments |-> args]

\* one chunk of the response stream
Chunk(us, choice, fr, content, frags) ==
    [usage |-> us, has_choice |-> choice, finish_reason |-> fr, content |-> content,
     tool_calls |-> frags]

\* the chunks of the model
Frames ==
    { Chunk(FALSE, TRUE, None, "Hi", <<>>),
      Chunk(FALSE, TRUE, None, "", << Fragment(0, "c0", TRUE, "glob", "{\"pattern\":") >>),
      Chunk(FALSE, TRUE, None, "", << Fragment(0, "", TRUE, "", "\"*\"}") >>),
      Chunk(FALSE, TRUE, None, "", << Fragment(1, "c1", TRUE, "write_file", "{\"path\":\"a.py\"}") >>),
      Chunk(FALSE, TRUE, None, "", << Fragment(0, "c0", TRUE, "", "") >>),
      Chunk(TRUE, TRUE, "tool_calls", "", <<>>),
      Chunk(TRUE, FALSE, None, "", <<>>) }

\* _stream_response, the text of a chunk: "if delta.content: yield TEXT_DELTA"
TextEventsAlways(content) == <<TextDelta(content)>>

TextEvents(content) == IF content # "" THEN <<TextDelta(content)>> ELSE <<>>

HasIndex(tcs, idx) == \E i \in DOMAIN tcs : tcs[i].index = idx

\* _stream_response, one tool_call_delta of a chunk: only a fragment at an
\* index not seen before is looked at
ApplyFragment(tcs, d) ==
    IF HasIndex(tcs, d.index)
    THEN [tool_calls |-> tcs, events |-> <<>>]
    ELSE LET named == d.has_function /\ d.name # ""
             argd  == d.has_function /\ d.arguments # ""
             entry == [index |-> d.index, id |-> d.id,
                       name |-> IF named THEN d.name ELSE "",
                       arguments |-> IF argd THEN d.arguments ELSE ""]
         IN  [tool_calls |-> Append(tcs, entry),
              events |-> (IF named THEN <<ToolCallStart(entry.id, entry.name)>> ELSE <<>>)
                         \o (IF argd THEN <<ToolCallDelta(entry.id, entry.name, d.arguments)>>
                             ELSE <<>>)]

RECURSIVE ApplyFragments(_, _)
ApplyFragments(tcs, ds) ==
    IF ds = <<>> THEN [tool_calls |-> tcs, events |-> <<>>]
    ELSE LET a == ApplyFragment(tcs, Head(ds))
             r == ApplyFragments(a.tool_calls, Tail(ds))
         IN  [tool_calls |-> r.tool_calls, events |-> a.events \o r.events]

\* _stream_response, after the stream: one TOOL_CALL_DETAILS_COMPLETE per entry
CompleteEventsParsedOnly(tcs) ==
    LET parsed == SelectSeq(tcs, LAMBDA tc : parse_tool_call_arguments(tc.arguments) # <<>>)
    IN  [i \in DOMAIN parsed |->
            ToolCallComplete(parsed[i].id, parsed[i].name,
                             parse_tool_call_arguments(parsed[i].arguments))]

CompleteEvents(tcs) ==
    [i \in DOMAIN tcs |->
        ToolCallComplete(tcs[i].id, tcs[i].name, parse_tool_call_arguments(tcs[i].arguments))]

RECURSIVE Pow2(_)
Pow2(n) == IF n = 0 THEN 1 ELSE 2 * Pow2(n - 1)

Max(a, b) == IF a >= b THEN a ELSE b

\* whether int(reset_header) returns (it raises ValueError otherwise)
IsInt(h) == h \in {"9000", "1000"}

\* int(reset_header)
ParseInt(h) ==
    CASE h = "9000" -> 9000
      [] h = "1000" -> 1000

\* the wait of the RateLimitError handler, in milliseconds: 2 ** attempt
\* seconds, replaced by max(1, reset/1000 - now) when the X-RateLimit-Reset
\* header is there and is an integer
RateLimitWaitLinear(att, reset_header, now) ==
    IF reset_header # None /\ reset_header # "" /\ IsInt(reset_header)
    THEN Max(1000, ParseInt(reset_header) - now)
    ELSE 1000 * (att + 1)

RateLimitWaitNoFloor(att, reset_header, now) ==
    IF reset_header # None /\ reset_header # "" /\ IsInt(reset_header)
    THEN ParseInt(reset_header) - now
    ELSE 1000 * Pow2(att)

RateLimitWait(att, reset_header, now) ==
    IF reset_header # None /\ reset_header # "" /\ IsInt(reset_header)
    THEN Max(1000, ParseInt(reset_header) - now)
    ELSE 1000 * Pow2(att)

\* the wait of the APIConnectionError handler, in milliseconds
ConnectionWait(att) == 1000 * Pow2(att)

\* what the except clauses of chat_completion do with a fault of an attempt:
\* sleep and go on with the loop, yield an Error and return, or (a fault that
\* is no APIError) let it propagate
RetryAlways(kind, att) ==
    CASE kind \in {"rate", "conn"} -> "retry"
      [] kind = "api" -> "error"
      [] OTHER -> "raise"

ErrorWithoutRetry(kind, att) ==
    CASE kind \in {"rate", "conn", "api"} -> "error"
      [] OTHER -> "raise"

RetryProviderErrors(kind, att) ==
    CASE kind \in {"rate", "conn", "api"} -> IF att < max_retries THEN "retry" ELSE "error"
      [] OTHER -> "raise"

OnFault(kind, att) ==
    CASE kind \in {"rate", "conn"} -> IF att < max_retries THEN "retry" ELSE "error"
      [] kind = "api" -> "error"
      [] OTHER -> "raise"

ErrorText(kind) ==
    CASE kind = "rate" -> "Rate limit exceeded: e"
      [] kind = "conn" -> "Connection error: e"
      [] OTHER -> "API error: e"

\* the faults an attempt can end with: RateLimitError (with its
\* X-RateLimit-Reset header, epoch milliseconds, and the clock time.time(),
\* here in milliseconds), APIConnectionError, another APIError, a cancellation
\* (asyncio.CancelledError) and any other exception (a fault of the chunk
\* processing)
Faults ==
    { [kind |-> "rate", reset |-> None, now |-> 2000],
      [kind |-> "rate", reset |-> "9000", now |-> 2000],
      [kind |-> "rate", reset |-> "1000", now |-> 2000],
      [kind |-> "rate", reset |-> "soon", now |-> 2000],
      [kind |-> "conn", reset |-> None, now |-> 2000],
      [kind |-> "api", reset |-> None, now |-> 2000],
      [kind |-> "cancel", reset |-> None, now |-> 2000],
      [kind |-> "other", reset |-> None, now |-> 2000] }

\* client.chat.completions.create returns the stream (stream = True)
Create ==
    /\ dpc = "attempt"
    /\ stream
    /\ dpc' = "stream"
    /\ tool_calls' = <<>>
    /\ finish_reason' = None
    /\ usage' = FALSE
    /\ wire' = <<>>
    /\ creates' = creates + 1
    /\ UNCHANGED <<stream, attempt, dout, sleeps, nframes, lastFault, faultLog,
                   regVars, agentVars>>

\* _stream_response, one iteration of "async for chunk in response"
Receive(f) ==
    /\ dpc = "stream"
    /\ nframes < MaxFrames
    /\ nframes' = nframes + 1
    /\ wire' = Append(wire, f)
    /\ usage' = (usage \/ f.usage)
    /\ IF ~f.has_choice
       THEN UNCHANGED <<finish_reason, tool_calls, dout>>
       ELSE LET a == ApplyFragments(tool_calls, f.tool_calls)
            IN  /\ finish_reason' = IF f.finish_reason # None THEN f.finish_reason
                                    ELSE finish_reason
                /\ tool_calls' = a.tool_calls
                /\ dout' = dout \o TextEvents(f.content) \o a.events
    /\ UNCHANGED <<dpc, stream, attempt, sleeps, lastFault, faultLog, creates,
                   regVars, agentVars>>

\* _stream_response, the stream ended: the completes, then MESSAGE_COMPLETE;
\* chat_completion returns
StreamEnd ==
    /\ dpc = "stream"
    /\ dout' = dout \o CompleteEvents(tool_calls) \o <<MessageComplete(finish_reason, usage)>>
    /\ dpc' = "done"
    /\ UNCHANGED <<stream, attempt, tool_calls, finish_reason, usage, sleeps, wire,
                   nframes, lastFault, faultLog, creates, regVars, agentVars>>

\* _non_stream_response (stream = False): one MESSAGE_COMPLETE
NonStream(fr, us) ==
    /\ dpc = "attempt"
    /\ ~stream
    /\ dout' = Append(dout, MessageComplete(fr, us))
    /\ dpc' = "done"
    /\ creates' = creates + 1
    /\ UNCHANGED <<stream, attempt, tool_calls, finish_reason, usage, sleeps, wire,
                   nframes, lastFault, faultLog, regVars, agentVars>>

\* an attempt ends with a fault (create, or reading the stream, raises)
Fault(x) ==
    /\ dpc \in {"attempt", "stream"}
    /\ lastFault' = x.kind
    /\ faultLog' = Append(faultLog, x)
    /\ creates' = IF dpc = "attempt" THEN creates + 1 ELSE creates
    /\ LET what == OnFault(x.kind, attempt)
       IN  CASE what = "retry" ->
                  /\ sleeps' = Append(sleeps, IF x.kind = "rate"
                                              THEN RateLimitWait(attempt, x.reset, x.now)
                                              ELSE ConnectionWait(attempt))
                  /\ attempt' = attempt + 1
                  /\ dpc' = IF attempt + 1 < max_retries + 1 THEN "attempt" ELSE "done"
                  /\ UNCHANGED dout
             [] what = "error" ->
                  /\ dout' = Append(dout, ErrorEvent(ErrorText(x.kind)))
                  /\ dpc' = "done"
                  /\ UNCHANGED <<sleeps, attempt>>
             [] OTHER ->
                  /\ dpc' = "raised"
                  /\ UNCHANGED <<dout, sleeps, attempt>>
    /\ UNCHANGED <<stream, tool_calls, finish_reason, usage, wire, nframes, regVars, agentVars>>

(***************************************************************************)
(* Agent loop (Agent.run, Agent._agentic_loop, Session, ContextManager)    *)
(***************************************************************************)

\* Config.max_turns of the model
MaxTurns == 3

\* the number of messages an interactive session is given
MaxRuns == 2

\* the keys of the model's argument mappings, in sorted order
KeyOrder == <<"content", "create_directories", "path", "pattern">>

JsonValue(v) == IF v.t = "str" THEN "\"" \o v.v \o "\"" ELSE v.v

JsonPair(kv) == "\"" \o kv[1] \o "\": " \o JsonValue(kv[2])

\* json.dumps(d): the pairs in the dict's insertion order
json_dumps(d) == "{" \o Join(", ", [i \in DOMAIN d |-> JsonPair(d[i])]) \o "}"

\* json.dumps(d, sort_keys=True)
json_dumps_sort_keys(d) ==
    LET ks == SelectSeq(KeyOrder, LAMBDA k : HasKey(d, k))
    IN  json_dumps([i \in DOMAIN ks |-> <<ks[i], ValueOf(d, ks[i])>>])

\* current_signatures of _agentic_loop
UnsortedSignatures(tcs) ==
    [i \in DOMAIN tcs |-> <<tcs[i].name, json_dumps(tcs[i].arguments)>>]

SignaturesWithIds(tcs) ==
    [i \in DOMAIN tcs |->
        <<tcs[i].call_id, tcs[i].name, json_dumps_sort_keys(tcs[i].arguments)>>]

Signatures(tcs) ==
    [i \in DOMAIN tcs |-> <<tcs[i].name, json_dumps_sort_keys(tcs[i].arguments)>>]

\* range(max_turns): whether the loop has an iteration for this value
RangeHasNextInclusive(t, max) == t <= max

RangeHasNext(t, max) == t < max

\* MessageItem
MessageItem(role, content, id, tcs) ==
    [role |-> role, content |-> content, tool_call_id |-> id, tool_calls |-> tcs]

\* the tool-call records of the assistant message
ToolCallRecords(tcs) ==
    [i \in DOMAIN tcs |->
        [id |-> tcs[i].call_id, type |-> "function", name |-> tcs[i].name,
         arguments |-> json_dumps(tcs[i].arguments)]]

\* AgentEvent, with the turn it was yielded in (0 outside the loop)
AgentEvent(ty, t, content, id, name, args, res) ==
    [type |-> ty, turn |-> t, content |-> content, call_id |-> id, name |-> name,
     arguments |-> args, result |-> res]

\* the notice of loop detection (the source's dash written as a hyphen)
LoopNotice == "\n[Loop detected - the same tool calls were repeated. Stopping.]\n"

\* the body of "async for event in chat_completion(...)": the text, the tool
\* calls and the AgentEvents that a sequence of StreamEvents leaves
RECURSIVE ConsumeStreamDiscardOnError(_, _, _)
ConsumeStreamDiscardOnError(evs, t, acc) ==
    IF evs = <<>> THEN acc
    ELSE LET e == Head(evs)
             next ==
               CASE e.type = "TEXT_DELTA" ->
                      [acc EXCEPT !.response_text = @ \o e.content,
                                  !.out = Append(@, AgentEvent("text_delta", t, e.content, "", "", <<>>, NoResult))]
                 [] e.type = "TOOL_CALL_DETAILS_COMPLETE" ->
                      [acc EXCEPT !.tool_calls = Append(@, [call_id |-> e.call_id, name |-> e.name,
                                                            arguments |-> e.arguments])]
                 [] e.type = "ERROR" ->
                      [acc EXCEPT !.response_text = "",
                                  !.tool_calls = <<>>,
                                  !.out = Append(@, AgentEvent("agent_error", t, e.error,
                                                               "", "", <<>>, NoResult))]
                 [] OTHER -> acc
         IN  ConsumeStreamDiscardOnError(Tail(evs), t, next)

RECURSIVE ConsumeStreamStartsAsCalls(_, _, _)
ConsumeStreamStartsAsCalls(evs, t, acc) ==
    IF evs = <<>> THEN acc
    ELSE LET e == Head(evs)
             next ==
               CASE e.type = "TEXT_DELTA" ->
                      [acc EXCEPT !.response_text = @ \o e.content,
                                  !.out = Append(@, AgentEvent("text_delta", t, e.content, "", "", <<>>, NoResult))]
                 [] e.type = "TOOL_CALL_DETAILS_START" ->
                      [acc EXCEPT !.tool_calls = Append(@, [call_id |-> e.call_id, name |-> e.name,
                                                            arguments |-> e.arguments])]
                 [] e.type = "ERROR" ->
                      [acc EXCEPT !.out = Append(@, AgentEvent("agent_error", t, e.error,
                                                               "", "", <<>>, NoResult))]
                 [] OTHER -> acc
         IN  ConsumeStreamStartsAsCalls(Tail(evs), t, next)

RECURSIVE ConsumeStream(_, _, _)
ConsumeStream(evs, t, acc) ==
    IF evs = <<>> THEN acc
    ELSE LET e == Head(evs)
             next ==
               CASE e.type = "TEXT_DELTA" ->
                      [acc EXCEPT !.response_text = @ \o e.content,
                                  !.out = Append(@, AgentEvent("text_delta", t, e.content, "", "", <<>>, NoResult))]
                 [] e.type = "TOOL_CALL_DETAILS_COMPLETE" ->
                      [acc EXCEPT !.tool_calls = Append(@, [call_id |-> e.call_id, name |-> e.name,
                                                            arguments |-> e.arguments])]
                 [] e.type = "ERROR" ->
                      [acc EXCEPT !.out = Append(@, AgentEvent("agent_error", t,
                                                   IF e.error = None \/ e.error = ""
                                                   THEN "Uknown error occured." ELSE e.error,
                                                   "", "", <<>>, NoResult))]
                 [] OTHER -> acc
         IN  ConsumeStream(Tail(evs), t, next)

\* the tool calls of the model's responses
CallGlob1  == ToolCallComplete("c1", "glob", << <<"pattern", Str("*")>> >>)
CallGlob2  == ToolCallComplete("c2", "glob", << <<"pattern", Str("*")>> >>)
CallWrite1 == ToolCallComplete("c3", "write_file", << <<"path", Str("a.py")>>, <<"content", Str("x")>> >>)
CallWrite2 == ToolCallComplete("c4", "write_file", << <<"content", Str("x")>>, <<"path", Str("a.py")>> >>)
CallWrite0 == ToolCallComplete("c5", "write_file", <<>>)
CallNope   == ToolCallComplete("c6", "nope", <<>>)

Done == MessageComplete("stop", FALSE)

\* what chat_completion can give the loop in one turn: the events it yields,
\* and whether it then raises instead of ending
Response(evs, r) == [events |-> evs, raised |-> r]

Responses ==
    { Response(<<CallGlob1, Done>>, FALSE),
      Response(<<TextDelta("Hi"), CallGlob2, Done>>, FALSE),
      Response(<<CallWrite1, Done>>, FALSE),
      Response(<<TextDelta("Hi"), CallWrite2, Done>>, FALSE),
      Response(<<CallNope, CallGlob1, Done>>, FALSE),
      Response(<<CallWrite0, CallGlob2, Done>>, FALSE),
      Response(<<TextDelta("Hi"), TextDelta("!"), Done>>, FALSE),
      Response(<<Done>>, FALSE),
      Response(<<TextDelta("Hi"), ErrorEvent("API error: e")>>, FALSE),
      Response(<<ErrorEvent("Rate limit exceeded: e")>>, FALSE),
      Response(<<TextDelta("Hi")>>, TRUE) }

\* one step of the loop, with its turn and (for a tool step) the call id
Step(op, t, id) == [op |-> op, turn |-> t, call_id |-> id]

\* "for tool_call in tool_calls": the call of the i-th iteration
CallAtReversed(tcs, i) == tcs[Len(tcs) + 1 - i]

CallAt(tcs, i) == tcs[i]

\* "for tool_call in tool_calls": whether an iteration follows the i-th of n
HasMoreCallsShort(i, n) == i + 1 < n

HasMoreCalls(i, n) == i < n

\* "for tool_result in tool_call_results: add_tool_result(...)": the messages
\* appended, in order
ToolMessagesReversed(queued) ==
    [i \in DOMAIN queued |->
        MessageItem("tool", queued[Len(queued) + 1 - i].content,
                    queued[Len(queued) + 1 - i].tool_call_id, <<>>)]

ToolMessages(queued) ==
    [i \in DOMAIN queued |->
        MessageItem("tool", queued[i].content, queued[i].tool_call_id, <<>>)]

\* the tail of Agent.run: agent_end with the last TEXT_COMPLETE's content
AgentEndAsError(t, final) == AgentEvent("agent_error", t, final, "", "", <<>>, NoResult)

AgentEndWithoutText(t, final) == AgentEvent("agent_end", t, None, "", "", <<>>, NoResult)

AgentEnd(t, final) == AgentEvent("agent_end", t, final, "", "", <<>>, NoResult)

\* Agent.run up to the loop: agent_start, add_user_message
Run(msg) ==
    /\ runs' = runs + 1
    /\ messages' = Append(messages, MessageItem("user", msg, None, <<>>))
    /\ final_response' = None
    /\ turn' = 0
    /\ recent_tool_calls' = <<>>
    /\ turnCalls' = <<>>
    /\ LET start == AgentEvent("agent_start", 0, msg, "", "", <<>>, NoResult)
       IN  IF RangeHasNext(0, MaxTurns)
           THEN /\ apc' = "turn"
                /\ events' = Append(events, start)
           ELSE /\ apc' = "done"
                /\ events' = events \o <<start, AgentEnd(0, None)>>
    /\ UNCHANGED <<turn_count, agent_tool_calls, callIdx, tool_call_results, modelCalls,
                   invoked, trace, received, system_prompt, regVars, decVars>>

\* AgentEvent.tool_call_complete as the loop yields it after an invoke
tool_failure_as_error(t, tc, result) ==
    IF result.success
    THEN AgentEvent("tool_call_complete", t, "", tc.call_id, tc.name, <<>>, result)
    ELSE AgentEvent("agent_error", t, result.error, "", "", <<>>, NoResult)

tool_call_complete(t, tc, result) ==
    AgentEvent("tool_call_complete", t, "", tc.call_id, tc.name, <<>>, result)

\* CLI.run_single, and the first message of CLI.run_interactive
StartRun(msg) ==
    /\ apc = "idle"
    /\ Run(msg)

\* a later iteration of the "while True" of CLI.run_interactive: the next
\* message is run on the same Agent once the previous run has ended
RunAgain(msg) ==
    /\ apc = "done"
    /\ runs < MaxRuns
    /\ Run(msg)

\* one iteration of _agentic_loop from increment_turn to the for loop over the
\* tool calls: the model call, the assistant message, TEXT_COMPLETE, the return
\* on no tool calls, loop detection
ModelCall(resp) ==
    /\ apc = "turn"
    /\ turn_count' = turn_count + 1
    /\ modelCalls' = modelCalls + 1
    /\ received' = Append(received, resp.events)
    /\ LET t   == turn + 1
           c   == ConsumeStream(resp.events, t, [response_text |-> "", tool_calls |-> <<>>, out |-> <<>>])
           txt == c.response_text
           complete == IF txt # ""
                       THEN <<AgentEvent("text_complete", t, txt, "", "", <<>>, NoResult)>>
                       ELSE <<>>
           final == IF txt # "" THEN txt ELSE final_response
           sigs == Signatures(c.tool_calls)
       IN  IF resp.raised
           THEN /\ apc' = "aborted"
                /\ events' = events \o c.out
                /\ trace' = Append(trace, Step("chat_completion", t, ""))
                /\ UNCHANGED <<messages, final_response, recent_tool_calls, agent_tool_calls,
                               callIdx, tool_call_results, turnCalls>>
           ELSE /\ messages' = Append(messages,
                                      MessageItem("assistant", txt, None, ToolCallRecords(c.tool_calls)))
                /\ final_response' = final
                /\ agent_tool_calls' = c.tool_calls
                /\ turnCalls' = Append(turnCalls, c.tool_calls)
                /\ tool_call_results' = <<>>
                /\ trace' = trace \o <<Step("chat_completion", t, ""),
                                       Step("stream_end", t, ""),
                                       Step("add_assistant_message", t, "")>>
                                 \o (IF c.tool_calls # <<>> /\ sigs = recent_tool_calls
                                     THEN <<Step("loop_notice", t, "")>> ELSE <<>>)
                /\ IF c.tool_calls = <<>>
                   THEN /\ apc' = "done"
                        /\ events' = events \o c.out \o complete \o <<AgentEnd(t, final)>>
                        /\ UNCHANGED <<recent_tool_calls, callIdx>>
                   ELSE IF sigs = recent_tool_calls
                        THEN /\ apc' = "done"
                             /\ events' = events \o c.out \o complete
                                   \o <<AgentEvent("text_delta", t, LoopNotice, "", "", <<>>, NoResult),
                                        AgentEnd(t, final)>>
                             /\ UNCHANGED <<recent_tool_calls, callIdx>>
                        ELSE /\ apc' = "exec"
                             /\ recent_tool_calls' = sigs
                             /\ callIdx' = 1
                             /\ events' = events \o c.out \o complete
    /\ UNCHANGED <<turn, invoked, runs, system_prompt, regVars, decVars>>

\* one iteration of "for tool_call in tool_calls": the start notification, the
\* invoke, the completion notification, the queued message; after the last call
\* the tool messages are appended and the loop goes to its next iteration
ExecTool(beh) ==
    /\ apc = "exec"
    /\ LET t   == turn + 1
           tc  == CallAt(agent_tool_calls, callIdx)
           o   == Invoke(tools, tc.name, tc.arguments, beh)
           start == AgentEvent("tool_call_start", t, "", tc.call_id, tc.name, tc.arguments, NoResult)
           compl == tool_call_complete(t, tc, o.result)
           queued == Append(tool_call_results,
                            [tool_call_id |-> tc.call_id, content |-> to_model_output(o.result),
                             is_error |-> ~o.result.success])
       IN  /\ invoked' = Append(invoked, [turn |-> t, call_id |-> tc.call_id, name |-> tc.name,
                                          result |-> o.result])
           /\ IF o.raised
              THEN /\ apc' = "aborted"
                   /\ events' = Append(events, start)
                   /\ trace' = trace \o <<Step("tool_call_start", t, tc.call_id),
                                          Step("invoke", t, tc.call_id)>>
                   /\ UNCHANGED <<turn, callIdx, tool_call_results, messages>>
              ELSE IF HasMoreCalls(callIdx, Len(agent_tool_calls))
                   THEN /\ events' = events \o <<start, compl>>
                        /\ trace' = trace \o <<Step("tool_call_start", t, tc.call_id),
                                               Step("invoke", t, tc.call_id),
                                               Step("tool_call_complete", t, tc.call_id)>>
                        /\ tool_call_results' = queued
                        /\ callIdx' = callIdx + 1
                        /\ UNCHANGED <<apc, turn, messages>>
                   ELSE /\ tool_call_results' = queued
                        /\ messages' = messages \o ToolMessages(queued)
                        /\ trace' = trace \o <<Step("tool_call_start", t, tc.call_id),
                                               Step("invoke", t, tc.call_id),
                                               Step("tool_call_complete", t, tc.call_id)>>
                                         \o [i \in DOMAIN queued |->
                                               Step("add_tool_result", t,
                                                    ToolMessages(queued)[i].tool_call_id)]
                        /\ turn' = turn + 1
                        /\ UNCHANGED callIdx
                        /\ IF RangeHasNext(turn + 1, MaxTurns)
                           THEN /\ apc' = "turn"
                                /\ events' = events \o <<start, compl>>
                           ELSE /\ apc' = "done"
                                /\ events' = events \o <<start, compl, AgentEnd(t, final_response)>>
    /\ UNCHANGED <<turn_count, recent_tool_calls, agent_tool_calls, final_response,
                   modelCalls, turnCalls, received, runs, system_prompt, regVars, decVars>>

(***************************************************************************)
(* Context (ContextManager, MessageItem)                                   *)
(***************************************************************************)

\* the number of messages added to a ContextManager
MaxMessages == 3

\* what get_system_prompt gives the ContextManager: nothing, or a prompt
SystemPrompts == {"", "You are a coding agent."}

\* a rendered message: the keys of the dict in insertion order, and the values
\* of the keys it has (None, <<>> for a key it lacks)
RenderedMessage(keys, role, id, tcs, content) ==
    [keys |-> keys, role |-> role, tool_call_id |-> id, tool_calls |-> tcs,
     content |-> content]

\* MessageItem.to_dict
to_dict_all_keys(m) ==
    RenderedMessage(<<"role", "tool_call_id", "tool_calls", "content">>, m.role,
             m.tool_call_id, m.tool_calls,
             IF m.content = None THEN "" ELSE m.content)

to_dict(m) ==
    LET has_id  == m.tool_call_id # None /\ m.tool_call_id # ""
        has_tcs == m.tool_calls # <<>>
    IN  RenderedMessage(<<"role">> \o (IF has_id THEN <<"tool_call_id">> ELSE <<>>)
                            \o (IF has_tcs THEN <<"tool_calls">> ELSE <<>>)
                            \o <<"content">>,
                 m.role,
                 IF has_id THEN m.tool_call_id ELSE None,
                 IF has_tcs THEN m.tool_calls ELSE <<>>,
                 IF m.content = None THEN "" ELSE m.content)

\* ContextManager.get_messages
get_messages_prompt_last(prompt, msgs) ==
    [i \in DOMAIN msgs |-> to_dict(msgs[i])]
      \o (IF prompt # None /\ prompt # ""
          THEN <<RenderedMessage(<<"role", "content">>, "system", None, <<>>, prompt)>>
          ELSE <<>>)

get_messages(prompt, msgs) ==
    (IF prompt # None /\ prompt # ""
     THEN <<RenderedMessage(<<"role", "content">>, "system", None, <<>>, prompt)>>
     ELSE <<>>)
      \o [i \in DOMAIN msgs |-> to_dict(msgs[i])]

\* the arguments of the model's add_assistant_message and add_tool_result calls
AssistantContents == {None, "", "ok"}

AssistantToolCalls == {<<>>, ToolCallRecords(<<CallGlob1>>)}

ToolCallIds == {"c1", ""}

\* ContextManager.add_user_message
add_user_message(content) ==
    /\ Len(messages) < MaxMessages
    /\ messages' = Append(messages, MessageItem("user", content, None, <<>>))
    /\ UNCHANGED <<apc, turn, turn_count, recent_tool_calls, agent_tool_calls, callIdx,
                   tool_call_results, final_response, events, modelCalls, turnCalls,
                   invoked, trace, received, runs, system_prompt, regVars, decVars>>

\* ContextManager.add_assistant_message
add_assistant_message(content, tcs) ==
    /\ Len(messages) < MaxMessages
    /\ messages' = Append(messages,
                          MessageItem("assistant", IF content = None THEN "" ELSE content,
                                      None, tcs))
    /\ UNCHANGED <<apc, turn, turn_count, recent_tool_calls, agent_tool_calls, callIdx,
                   tool_call_results, final_response, events, modelCalls, turnCalls,
                   invoked, trace, received, runs, system_prompt, regVars, decVars>>

\* ContextManager.add_tool_result
add_tool_result(id, content) ==
    /\ Len(messages) < MaxMessages
    /\ messages' = Append(messages, MessageItem("tool", content, id, <<>>))
    /\ UNCHANGED <<apc, turn, turn_count, recent_tool_calls, agent_tool_calls, callIdx,
                   tool_call_results, final_response, events, modelCalls, turnCalls,
                   invoked, trace, received, runs, system_prompt, regVars, decVars>>

(***************************************************************************)
(* Specifications                                                          *)
(***************************************************************************)

RegistryStart ==
    /\ tools = BuiltinTools
    /\ regOut = NoCall

DecoderStart ==
    /\ dpc = "attempt"
    /\ attempt = 0
    /\ tool_calls = <<>>
    /\ finish_reason = None
    /\ usage = FALSE
    /\ dout = <<>>
    /\ sleeps = <<>>
    /\ wire = <<>>
    /\ nframes = 0
    /\ lastFault = None
    /\ faultLog = <<>>
    /\ creates = 0

AgentStart ==
    /\ apc = "idle"
    /\ turn = 0
    /\ turn_count = 0
    /\ recent_tool_calls = <<>>
    /\ agent_tool_calls = <<>>
    /\ callIdx = 1
    /\ tool_call_results = <<>>
    /\ final_response = None
    /\ messages = <<>>
    /\ events = <<>>
    /\ modelCalls = 0
    /\ turnCalls = <<>>
    /\ invoked = <<>>
    /\ trace = <<>>
    /\ received = <<>>
    /\ runs = 0

InitRegistry ==
    /\ AgentStart
    /\ system_prompt = ""
    /\ RegistryStart
    /\ allowed_tools \in AllowLists
    /\ DecoderStart
    /\ stream = TRUE

NextRegistry ==
    \/ \E n \in ToolNames : Register(n)
    \/ \E n \in ToolNames : Unregister(n)
    \/ \E n \in InvokeNames, p \in ParamSets, b \in Behaviours : InvokeCall(n, p, b)

SpecRegistry == InitRegistry /\ [][NextRegistry]_vars

InitDecoder ==
    /\ AgentStart
    /\ system_prompt = ""
    /\ RegistryStart
    /\ allowed_tools = <<>>
    /\ DecoderStart
    /\ stream \in BOOLEAN

NextDecoder ==
    \/ Create
    \/ \E f \in Frames : Receive(f)
    \/ StreamEnd
    \/ \E fr \in {"stop", "tool_calls"}, us \in BOOLEAN : NonStream(fr, us)
    \/ \E x \in Faults : Fault(x)

SpecDecoder == InitDecoder /\ [][NextDecoder]_vars

\* the agent: a Session with the default registry and no allow-list
Init ==
    /\ RegistryStart
    /\ allowed_tools = <<>>
    /\ DecoderStart
    /\ stream = TRUE
    /\ AgentStart
    /\ system_prompt = ""

Next ==
    \/ \E msg \in {"list files"} : StartRun(msg)
    \/ \E r \in Responses : ModelCall(r)
    \/ \E b \in Behaviours : ExecTool(b)

Spec == Init /\ [][Next]_vars

\* an interactive session: several messages run on one Agent, the model
\* answering with one tool call or with a final text, the tools succeeding
SessionResponses ==
    { Response(<<CallGlob1, Done>>, FALSE),
      Response(<<TextDelta("Hi"), CallGlob2, Done>>, FALSE),
      Response(<<CallWrite1, Done>>, FALSE),
      Response(<<TextDelta("Hi"), TextDelta("!"), Done>>, FALSE) }

NextSession ==
    \/ \E msg \in {"list files"} : StartRun(msg)
    \/ \E msg \in {"and now?"} : RunAgain(msg)
    \/ \E r \in SessionResponses : ModelCall(r)
    \/ ExecTool("ok")

SpecSession == Init /\ [][NextSession]_vars

\* the first turn of a run end to end: the decoder's call with its attempts,
\* then the loop consuming what the call yielded and executing the tool calls
TurnFrames ==
    { Chunk(FALSE, TRUE, None, "Hi", <<>>),
      Chunk(FALSE, TRUE, None, "!", <<>>),
      Chunk(FALSE, TRUE, "tool_calls", "", <<>>),
      Chunk(FALSE, TRUE, None, "", << Fragment(0, "c0", TRUE, "glob", "{\"pattern\":") >>),
      Chunk(FALSE, TRUE, None, "", << Fragment(0, "", TRUE, "", "\"*\"}") >>),
      Chunk(FALSE, TRUE, None, "", << Fragment(1, "c1", TRUE, "write_file", "{\"path\":\"a.py\"}") >>) }

TurnFaults ==
    { [kind |-> "conn", reset |-> None, now |-> 2000],
      [kind |-> "api", reset |-> None, now |-> 2000],
      [kind |-> "cancel", reset |-> None, now |-> 2000] }

\* the loop is inside "async for event in chat_completion(...)" of turn 1
InTurn == apc = "turn" /\ modelCalls = 0

TurnCreate == InTurn /\ Create

TurnReceive(f) == InTurn /\ Receive(f)

TurnStreamEnd == InTurn /\ StreamEnd

TurnFault(x) == InTurn /\ Fault(x)

\* the call has ended or raised: the rest of the loop's iteration
Deliver ==
    /\ InTurn
    /\ dpc \in {"done", "raised"}
    /\ ModelCall(Response(dout, dpc = "raised"))

NextTurn ==
    \/ \E msg \in {"list files"} : StartRun(msg)
    \/ TurnCreate
    \/ \E f \in TurnFrames : TurnReceive(f)
    \/ TurnStreamEnd
    \/ \E x \in TurnFaults : TurnFault(x)
    \/ Deliver
    \/ \E b \in Behaviours : ExecTool(b)

SpecTurn == Init /\ [][NextTurn]_vars

\* a ContextManager on its own: any sequence of add calls
InitContext ==
    /\ RegistryStart
    /\ allowed_tools = <<>>
    /\ DecoderStart
    /\ stream = TRUE
    /\ AgentStart
    /\ system_prompt \in SystemPrompts

NextContext ==
    \/ \E c \in {"list files", ""} : add_user_message(c)
    \/ \E c \in AssistantContents, tcs \in AssistantToolCalls : add_assistant_message(c, tcs)
    \/ \E id \in ToolCallIds, c \in {"out:glob"} : add_tool_result(id, c)

SpecContext == InitContext /\ [][NextContext]_vars

(***************************************************************************)
(* Properties of the registry (checked under SpecRegistry)                 *)
(***************************************************************************)

\* the fields that the declared parameters of the invoked tool say are violated
DeclaredViolations(call) ==
    ViolatedFields(ToolCatalog(call.name).fields, call.params)

\* C5: invoke never raises to its caller, whatever the name, the arguments and
\* the tool's behaviour (unknown tool, schema access failing, validation
\* failing, execute raising), and whenever execute did not return a result of
\* its own the ToolResult returned has success = FALSE.
C5_InvokeNeverRaises ==
    regOut.called =>
        /\ ~regOut.out.raised
        /\ (~regOut.out.executed \/ regOut.beh = "raise")
           => regOut.out.result.success = FALSE

\* C6: when the arguments violate the schema of the (registered) tool in one or
\* more fields, an invoke that returns has not called execute and returns one
\* failed result whose error joins one "Parameter '<field>': <reason>" message
\* per violated field with ';' and whose metadata lists every violated field.
C6_ValidationGate ==
    ( /\ regOut.called
      /\ InSeq(regOut.reg, regOut.name)
      /\ ~regOut.out.raised
      /\ DeclaredViolations(regOut) # <<>> )
    => LET bad  == DeclaredViolations(regOut)
           msgs == [i \in DOMAIN bad |-> ParameterMessage(bad[i], regOut.params)]
           res  == regOut.out.result
       IN  /\ ~regOut.out.executed
           /\ res.success = FALSE
           /\ res.error = "Invalid parameters: " \o Join(";", msgs)
           /\ res.metadata.kind = "dict"
           /\ "validation_errors" \in res.metadata.keys
           /\ res.metadata.validation_errors = msgs

\* C7: invoke with a name that is not registered returns a failed result whose
\* metadata maps tool_name to that name, runs neither validation nor execute,
\* and leaves the registry as it was.
C7_UnknownName ==
    (regOut.called /\ ~InSeq(regOut.reg, regOut.name))
    => LET res == regOut.out.result
       IN  /\ ~regOut.out.raised
           /\ res.success = FALSE
           /\ res.error # None
           /\ res.metadata.kind = "dict"
           /\ "tool_name" \in res.metadata.keys
           /\ res.metadata.tool_name = regOut.name
           /\ ~regOut.out.validated
           /\ ~regOut.out.executed
           /\ tools = regOut.reg

\* C7 witness: an unregistered name was invoked on a registry that holds tools
C7_Witness ==
    /\ regOut.called
    /\ ~InSeq(regOut.reg, regOut.name)
    /\ regOut.reg # <<>>
    /\ regOut.name \in ToolNames

\* C8: when execute raises on valid arguments, invoke returns success = FALSE,
\* an error carrying the fault's text, and a metadata mapping that carries the
\* tool name.
C8_ExecuteFault ==
    (regOut.called /\ regOut.out.executed /\ regOut.beh = "raise")
    => LET res == regOut.out.result
       IN  /\ ~regOut.out.raised
           /\ res.success = FALSE
           /\ res.error = "Internal error: " \o FaultText
           /\ res.metadata.kind = "dict"
           /\ "tool_name" \in res.metadata.keys
           /\ res.metadata.tool_name = regOut.name

\* C10: with a non-empty allow-list, a registered tool that is not on the list
\* is not advertised and invoke on its name gives the unknown-tool result
\* without calling execute (stated for arguments the tool's parameters accept).
C10_AllowList ==
    ( /\ regOut.called
      /\ allowed_tools # <<>>
      /\ InSeq(regOut.reg, regOut.name)
      /\ ~InSeq(allowed_tools, regOut.name)
      /\ ToolCatalog(regOut.name).schemaKind = "model"
      /\ DeclaredViolations(regOut) = <<>> )
    => /\ ~InSeq(get_tools(regOut.reg, allowed_tools), regOut.name)
       /\ ~InSeq(get_schemas(regOut.reg, allowed_tools), regOut.name)
       /\ ~regOut.out.raised
       /\ ~regOut.out.executed
       /\ regOut.out.result = UnknownToolResult(regOut.name)

\* C25: a ToolResult that invoke returns, whether built by error_result (unknown
\* tool, invalid parameters, execute raising, the tool's own failure) or by
\* success_result, has its error set exactly when success is false.
C25_ErrorIffFailure ==
    (regOut.called /\ ~regOut.out.raised) =>
        LET r == regOut.out.result
        IN  /\ r.success \in BOOLEAN
            /\ (r.error # None) <=> (r.success = FALSE)

\* C25 witness: invoke returned the failed result that the tool's execute made
\* with error_result
C25_Witness ==
    /\ regOut.called
    /\ regOut.out.executed
    /\ regOut.beh = "fail"
    /\ regOut.out.result.success = FALSE
    /\ regOut.out.result.error = "failed:glob"

(***************************************************************************)
(* Properties of the decoder (checked under SpecDecoder)                   *)
(***************************************************************************)

IsTerminal(e) == e.type \in {"MESSAGE_COMPLETE", "ERROR"}

TerminalPositions(evs) == {i \in DOMAIN evs : IsTerminal(evs[i])}

\* C3: the events of a chat_completion call hold at most one terminal event
\* (MESSAGE_COMPLETE or ERROR) and nothing follows it; the call has ended once
\* it is yielded; and a call whose attempts end in success, rate-limit,
\* connection or provider faults ends with exactly one terminal event as its
\* last event (it does not end by raising or with no terminal event).
C3_OneTerminalLast ==
    /\ \A i \in TerminalPositions(dout) : i = Len(dout)
    /\ TerminalPositions(dout) # {} => dpc = "done"
    /\ dpc = "done" => (dout # <<>> /\ TerminalPositions(dout) = {Len(dout)})
    /\ dpc = "raised" => lastFault \in {"cancel", "other"}

\* C3 witness: every attempt failed with a retryable fault, after events of an
\* earlier attempt were already yielded, and the call ended with its Error
C3_Witness ==
    /\ dpc = "done"
    /\ attempt = max_retries
    /\ Len(sleeps) = max_retries
    /\ Len(dout) > 1
    /\ dout[Len(dout)].type = "ERROR"

\* the argument chunks of the fragments at index idx, concatenated in arrival order
RECURSIVE FragmentChunks(_, _)
FragmentChunks(frags, idx) ==
    IF frags = <<>> THEN ""
    ELSE (IF Head(frags).index = idx /\ Head(frags).has_function
          THEN Head(frags).arguments ELSE "")
         \o FragmentChunks(Tail(frags), idx)

RECURSIVE Unsplit(_, _)
Unsplit(chunks, idx) ==
    IF chunks = <<>> THEN ""
    ELSE (IF Head(chunks).has_choice THEN FragmentChunks(Head(chunks).tool_calls, idx) ELSE "")
         \o Unsplit(Tail(chunks), idx)

\* the TOOL_CALL_DETAILS_COMPLETE events of a stream that ended, in order
YieldedCompletes ==
    SelectSeq(dout, LAMBDA e : e.type = "TOOL_CALL_DETAILS_COMPLETE")

\* C4: when a stream has ended, the arguments of the ToolCallComplete of every
\* index are the parse of the concatenation of all argument chunks delivered
\* at that index, however many frames they came in.
C4_Reassembly ==
    (stream /\ dpc = "done" /\ dout # <<>> /\ dout[Len(dout)].type = "MESSAGE_COMPLETE")
    => /\ Len(YieldedCompletes) = Len(tool_calls)
       /\ \A i \in DOMAIN tool_calls :
            YieldedCompletes[i].arguments
              = parse_tool_call_arguments(Unsplit(wire, tool_calls[i].index))

\* the argument chunks that the fragments of a chunk sequence carry, in
\* arrival order
RECURSIVE WireArguments(_)
WireArguments(chunks) ==
    IF chunks = <<>> THEN <<>>
    ELSE LET c    == Head(chunks)
             with == IF c.has_choice
                     THEN SelectSeq(c.tool_calls, LAMBDA d : d.has_function /\ d.arguments # "")
                     ELSE <<>>
         IN  [i \in DOMAIN with |-> with[i].arguments] \o WireArguments(Tail(chunks))

\* the chunks that the ToolCallDelta events yielded carry, in order
YieldedDeltas ==
    LET ds == SelectSeq(dout, LAMBDA e : e.type = "TOOL_CALL__DETAILS_DELTA")
    IN  [i \in DOMAIN ds |-> ds[i].arguments_delta]

\* C30: in a call's first attempt the decoder has yielded one ToolCallDelta per
\* fragment that carries an argument chunk, the first at its index or a later
\* one, each carrying that chunk alone, and the buffer of every index is the
\* concatenation of the chunks delivered at that index.
C30_DeltaPerChunk ==
    (stream /\ faultLog = <<>> /\ dpc \in {"stream", "done"}) =>
        /\ YieldedDeltas = WireArguments(wire)
        /\ \A i \in DOMAIN tool_calls :
              tool_calls[i].arguments = Unsplit(wire, tool_calls[i].index)

\* the tool-call fragments of a chunk sequence, in arrival order
RECURSIVE WireFragments(_)
WireFragments(chunks) ==
    IF chunks = <<>> THEN <<>>
    ELSE (IF Head(chunks).has_choice THEN Head(chunks).tool_calls ELSE <<>>)
         \o WireFragments(Tail(chunks))

\* the first fragment of a fragment sequence that satisfies a condition
FirstWhere(frs, Cond(_)) ==
    frs[CHOOSE i \in DOMAIN frs : Cond(frs[i]) /\ \A j \in 1..(i - 1) : ~Cond(frs[j])]

\* what the loop's stream loop makes of the events of one call
Consumed(evs) ==
    ConsumeStream(evs, 1, [response_text |-> "", tool_calls |-> <<>>, out |-> <<>>])

\* C31: when a stream has ended with MESSAGE_COMPLETE the decoder has yielded
\* one ToolCallComplete per index observed in the stream, the one of a smaller
\* index before the one of a larger index whatever index arrived first, all
\* of them after every TextDelta and ToolCallDelta and before the
\* MessageComplete, and the loop collects them in that order.
C31_CompletesInIndexOrder ==
    (stream /\ dpc = "done" /\ dout # <<>> /\ dout[Len(dout)].type = "MESSAGE_COMPLETE") =>
        LET frs  == WireFragments(wire)
            idxs == {frs[i].index : i \in DOMAIN frs}
            kth(k) == CHOOSE x \in idxs : Cardinality({y \in idxs : y < x}) = k - 1
            done == {i \in DOMAIN dout : dout[i].type = "TOOL_CALL_DETAILS_COMPLETE"}
            cs   == YieldedCompletes
            got  == Consumed(dout).tool_calls
        IN  /\ Len(cs) = Cardinality(idxs)
            /\ \A k \in DOMAIN cs :
                  cs[k].call_id = FirstWhere(frs, LAMBDA d : d.index = kth(k)).id
            /\ \A i \in done : \A j \in DOMAIN dout :
                  /\ dout[j].type \in {"TEXT_DELTA", "TOOL_CALL__DETAILS_DELTA"} => j < i
                  /\ dout[j].type = "MESSAGE_COMPLETE" => i < j
            /\ [k \in DOMAIN got |-> got[k].call_id] = [k \in DOMAIN cs |-> cs[k].call_id]

\* C34: in a call's first attempt, for every index observed so far of which
\* some fragment carried a name, one ToolCallStart has been yielded, with the
\* id of the index and that name, before every ToolCallDelta of that id; and
\* when the stream has ended the ToolCallComplete of the index carries the
\* same call_id and name and comes after it.
C34_OneStartPerIndex ==
    (stream /\ faultLog = <<>> /\ dpc \in {"stream", "done"}) =>
        LET frs   == WireFragments(wire)
            named == {frs[i].index : i \in {j \in DOMAIN frs :
                                              frs[j].has_function /\ frs[j].name # ""}}
            idOf(x)   == FirstWhere(frs, LAMBDA d : d.index = x).id
            nameOf(x) == FirstWhere(frs, LAMBDA d : d.index = x /\ d.has_function
                                                   /\ d.name # "").name
            starts == {i \in DOMAIN dout : dout[i].type = "TOOL_CALL_DETAILS_START"}
        IN  /\ Cardinality(starts) = Cardinality(named)
            /\ \A x \in named :
                  \E i \in starts :
                      /\ dout[i].call_id = idOf(x)
                      /\ dout[i].name = nameOf(x)
                      /\ \A j \in DOMAIN dout :
                            (dout[j].type = "TOOL_CALL__DETAILS_DELTA"
                               /\ dout[j].call_id = idOf(x)) => i < j
                      /\ dpc = "done" =>
                            \E j \in DOMAIN dout :
                                /\ dout[j].type = "TOOL_CALL_DETAILS_COMPLETE"
                                /\ i < j
                                /\ dout[j].call_id = dout[i].call_id
                                /\ dout[j].name = dout[i].name

ErrorPositions(evs) == {i \in DOMAIN evs : evs[i].type = "ERROR"}

Retryable(x) == x.kind \in {"rate", "conn"}

\* the call has ended and every attempt it made ended with a retryable fault
EveryAttemptFailedRetryable ==
    /\ dpc = "done"
    /\ creates = Len(faultLog)
    /\ \A i \in DOMAIN faultLog : Retryable(faultLog[i])

\* C11: a chat_completion call makes at most max_retries + 1 attempts against
\* the endpoint; every sleep is followed by another attempt (there are as many
\* sleeps as attempts while the next attempt is due, one less otherwise); and a
\* call whose every attempt failed with a rate-limit or connection fault made
\* exactly max_retries + 1 attempts, slept max_retries times and yielded one
\* Error, as its last event.
C11_BoundedAttempts ==
    /\ creates <= max_retries + 1
    /\ Len(sleeps) = (IF dpc = "attempt" THEN creates ELSE creates - 1)
    /\ dpc = "attempt" => creates < max_retries + 1
    /\ EveryAttemptFailedRetryable =>
          /\ creates = max_retries + 1
          /\ Len(sleeps) = max_retries
          /\ ErrorPositions(dout) = {Len(dout)}

\* C11 witness: rate-limit and connection faults alike ended all the attempts
\* of a call, and the call has ended
C11_Witness ==
    /\ EveryAttemptFailedRetryable
    /\ \E i \in DOMAIN faultLog : faultLog[i].kind = "rate"
    /\ \E i \in DOMAIN faultLog : faultLog[i].kind = "conn"
    /\ dout[Len(dout)].error = "Connection error: e"

NoHeader(x) == x.kind = "rate" /\ x.reset = None

\* C12: the wait slept after attempt number a (counted from 0) ended with a
\* rate-limit fault that carries no reset header is 2^a seconds, so successive
\* such faults are followed by waits of 1, 2, 4, ... seconds.
C12_ExponentialWaits ==
    \A i \in DOMAIN sleeps :
        NoHeader(faultLog[i]) => sleeps[i] = 1000 * Pow2(i - 1)

\* C12 witness: every retry of a call followed a rate-limit fault without a
\* reset header
C12_Witness ==
    /\ Len(sleeps) = max_retries
    /\ \A i \in DOMAIN sleeps : NoHeader(faultLog[i])

WithHeader(x) == x.kind = "rate" /\ x.reset # None

\* C13: the wait slept after a rate-limit fault with a reset header that reads
\* as an integer (epoch milliseconds) is the time from now to the reset, and 1
\* second where that is less (a reset in the past included), whatever the
\* attempt number; with a header that does not read as an integer it is
\* 2^attempt seconds.
C13_ResetHeaderWait ==
    \A i \in DOMAIN sleeps :
        LET x == faultLog[i]
        IN  WithHeader(x) =>
              IF IsInt(x.reset)
              THEN /\ sleeps[i] >= 1000
                   /\ ParseInt(x.reset) - x.now >= 1000 => sleeps[i] = ParseInt(x.reset) - x.now
                   /\ ParseInt(x.reset) - x.now < 1000 => sleeps[i] = 1000
              ELSE sleeps[i] = 1000 * Pow2(i - 1)

\* C13 witness: a call slept for a reset that lies ahead and, after later
\* attempts, for a reset that lies in the past and for a header that is no
\* integer
C13_Witness ==
    /\ \E i \in DOMAIN sleeps :
          /\ i > 1
          /\ WithHeader(faultLog[i]) /\ IsInt(faultLog[i].reset)
          /\ ParseInt(faultLog[i].reset) < faultLog[i].now
    /\ \E i \in DOMAIN sleeps :
          /\ WithHeader(faultLog[i]) /\ IsInt(faultLog[i].reset)
          /\ ParseInt(faultLog[i].reset) > faultLog[i].now
    /\ \E i \in DOMAIN sleeps :
          /\ i > 1
          /\ WithHeader(faultLog[i]) /\ ~IsInt(faultLog[i].reset)

\* C14: an APIError that is neither a rate-limit nor a connection fault ends
\* the call at once: it is the call's last fault, no sleep and no attempt
\* follow it, and the call has yielded one Error, as its last event.
C14_ProviderErrorEndsCall ==
    \A i \in DOMAIN faultLog :
        faultLog[i].kind = "api" =>
          /\ i = Len(faultLog)
          /\ dpc = "done"
          /\ creates = i
          /\ Len(sleeps) = i - 1
          /\ ErrorPositions(dout) = {Len(dout)}
          /\ dout[Len(dout)].error = "API error: e"

\* C14 witness: a provider error ended an attempt that had yielded events,
\* after a retry and with retries left
C14_Witness ==
    /\ Len(faultLog) = 2
    /\ faultLog[2].kind = "api"
    /\ attempt < max_retries
    /\ Len(dout) > 1

\* C15: a cancellation that aborts an attempt is not retried (it is the call's
\* last fault and no sleep follows it) and the call ends with an Error event
\* as its last event, not with a raised fault.
C15_CancellationAsError ==
    \A i \in DOMAIN faultLog :
        faultLog[i].kind = "cancel" =>
          /\ i = Len(faultLog)
          /\ Len(sleeps) = i - 1
          /\ dpc = "done"
          /\ dout # <<>>
          /\ dout[Len(dout)].type = "ERROR"

(***************************************************************************)
(* Properties of the agent loop (checked under Spec)                       *)
(***************************************************************************)

EventsOf(ty) == SelectSeq(events, LAMBDA e : e.type = ty)

EventsOfTurn(ty, t) == SelectSeq(events, LAMBDA e : e.type = ty /\ e.turn = t)

LoopNotices == SelectSeq(events, LAMBDA e : e.type = "text_delta" /\ e.content = LoopNotice)

\* C1: in a run the number of chat_completion calls made by the loop is at
\* most the configured max_turns, whatever the model's responses.
C1_AtMostMaxTurnsCalls == modelCalls <= MaxTurns

\* C1 witness: a run that made max_turns model calls and ended
C1_Witness == apc = "done" /\ modelCalls = MaxTurns

\* an argument mapping as a mapping: its key/value pairs, whatever their order
AsMapping(d) == {d[i] : i \in DOMAIN d}

\* two turns' tool calls give the same ordered (name, canonical arguments) list
SameCallList(a, b) ==
    /\ Len(a) = Len(b)
    /\ \A i \in DOMAIN a :
          /\ a[i].name = b[i].name
          /\ AsMapping(a[i].arguments) = AsMapping(b[i].arguments)

\* C2: if turn k and turn k+1 give the same ordered list of (name, canonical
\* arguments), no tool call of turn k+1 is executed (no invoke, no start or
\* completion notification), exactly one loop notice is emitted, and the run
\* ends in turn k+1 without a further model call.
C2_LoopDetection ==
    \A k \in 1 .. Len(turnCalls) - 1 :
        SameCallList(turnCalls[k], turnCalls[k + 1])
        => /\ EventsOfTurn("tool_call_start", k + 1) = <<>>
           /\ EventsOfTurn("tool_call_complete", k + 1) = <<>>
           /\ \A i \in DOMAIN invoked : invoked[i].turn # k + 1
           /\ Len(LoopNotices) = 1
           /\ LoopNotices[1].turn = k + 1
           /\ apc = "done"
           /\ modelCalls = k + 1
           /\ Len(turnCalls) = k + 1

\* C2 witness: two consecutive turns asked for the same calls, under other call
\* ids or with the argument keys in another order, and the run has ended
C2_Witness ==
    /\ apc = "done"
    /\ Len(turnCalls) >= 2
    /\ SameCallList(turnCalls[Len(turnCalls) - 1], turnCalls[Len(turnCalls)])
    /\ turnCalls[Len(turnCalls) - 1] # turnCalls[Len(turnCalls)]
    /\ \E i \in DOMAIN turnCalls[Len(turnCalls)] :
          turnCalls[Len(turnCalls)][i].arguments
             # turnCalls[Len(turnCalls) - 1][i].arguments

\* the text a result is shown to the model as
Rendered(r) ==
    IF r.success THEN r.output
    ELSE "Error: " \o r.error \o "\n\nOutput:\n" \o r.output

\* the turns whose tool calls were to be executed: some calls, no loop notice
ExecutedTurns ==
    {t \in DOMAIN turnCalls :
        /\ turnCalls[t] # <<>>
        /\ \A i \in DOMAIN events :
              ~(events[i].type = "text_delta" /\ events[i].content = LoopNotice
                /\ events[i].turn = t)}

\* C9: a failed tool call does not abort the run.  Every invoke is followed by
\* its completion notification; once a turn's calls are through (the loop is at
\* its next iteration or has ended) every call of every executed turn has its
\* completion notification, in call order, and the conversation holds one tool
\* message per call in that order, with the call's id and the rendered result
\* (an Error blob for a failed call); and the run ends after an executed turn
\* only when max_turns is reached.
C9_FailedCallsDoNotAbort ==
    LET starts    == EventsOf("tool_call_start")
        completes == EventsOf("tool_call_complete")
        toolMsgs  == SelectSeq(messages, LAMBDA m : m.role = "tool")
    IN  /\ Len(starts) = Len(invoked)
        /\ Len(completes) = Len(invoked)
        /\ \A i \in DOMAIN completes : completes[i].call_id = invoked[i].call_id
        /\ apc = "aborted" => (invoked = <<>> \/ invoked[Len(invoked)].turn < modelCalls)
        /\ apc \in {"turn", "done", "aborted"} =>
              /\ \A t \in ExecutedTurns :
                    LET cs == EventsOfTurn("tool_call_complete", t)
                    IN  /\ Len(cs) = Len(turnCalls[t])
                        /\ \A i \in DOMAIN cs : cs[i].call_id = turnCalls[t][i].call_id
              /\ Len(toolMsgs) = Len(completes)
              /\ \A i \in DOMAIN toolMsgs :
                    /\ toolMsgs[i].tool_call_id = completes[i].call_id
                    /\ toolMsgs[i].content = Rendered(completes[i].result)
        /\ (apc = "done" /\ Len(turnCalls) \in ExecutedTurns) => modelCalls = MaxTurns

\* C9 witness: a call failed, a later call of the same turn was executed, and
\* the loop went on to another model call
C9_Witness ==
    \E i, j \in DOMAIN events :
        /\ i < j
        /\ events[i].type = "tool_call_complete"
        /\ ~events[i].result.success
        /\ events[j].type = "tool_call_complete"
        /\ events[j].turn = events[i].turn
        /\ events[j].result.success
        /\ modelCalls > events[i].turn
        /\ \E m \in DOMAIN messages :
              /\ messages[m].role = "tool"
              /\ messages[m].tool_call_id = events[i].call_id

ToolOps == <<"tool_call_start", "invoke", "tool_call_complete">>

\* the steps of the for loop over the tool calls that turn t has taken
ToolSteps(t) ==
    SelectSeq(trace, LAMBDA x : x.turn = t
                               /\ x.op \in {"tool_call_start", "invoke", "tool_call_complete"})

StepsOf(op, t) == SelectSeq(trace, LAMBDA x : x.turn = t /\ x.op = op)

\* the places of a step in the trace
Places(op, t) == {j \in DOMAIN trace : trace[j].op = op /\ trace[j].turn = t}

\* the calls of executed turn t are through: the loop has left its for loop
Through(t) == t <= turn

\* C16: in a turn that loop detection does not halt, the tool calls are taken
\* one at a time in the order they were collected: start notification, invoke,
\* completion notification of call 1, then of call 2, and so on; the start
\* notification carries the call's id, name and arguments, the completion
\* notification the ToolResult that the invoke returned (success, output,
\* error, metadata, truncated); once the turn is through every call has had
\* its three steps.
C16_SequentialInOrder ==
    \A t \in ExecutedTurns :
        LET ts     == ToolSteps(t)
            calls  == turnCalls[t]
            starts == EventsOfTurn("tool_call_start", t)
            compls == EventsOfTurn("tool_call_complete", t)
            invs   == SelectSeq(invoked, LAMBDA r : r.turn = t)
        IN  /\ Len(ts) <= 3 * Len(calls)
            /\ \A j \in DOMAIN ts :
                  /\ ts[j].op = ToolOps[((j - 1) % 3) + 1]
                  /\ ts[j].call_id = calls[((j - 1) \div 3) + 1].call_id
            /\ Len(ts) = 3 * Len(compls)
            /\ Len(starts) = Len(compls) /\ Len(invs) = Len(compls)
            /\ \A i \in DOMAIN starts :
                  /\ starts[i].call_id = calls[i].call_id
                  /\ starts[i].name = calls[i].name
                  /\ starts[i].arguments = calls[i].arguments
            /\ \A i \in DOMAIN compls :
                  /\ compls[i].call_id = calls[i].call_id
                  /\ compls[i].name = calls[i].name
                  /\ compls[i].result = invs[i].result
                  /\ DOMAIN compls[i].result =
                        {"success", "output", "error", "metadata", "truncated"}
            /\ Through(t) => Len(ts) = 3 * Len(calls)

\* C16 witness: a turn with two calls is through, its first call failed
C16_Witness ==
    \E t \in ExecutedTurns :
        /\ Through(t)
        /\ Len(turnCalls[t]) = 2
        /\ ~EventsOfTurn("tool_call_complete", t)[1].result.success
        /\ EventsOfTurn("tool_call_complete", t)[2].result.success

IsToolStep(x) == x.op \in {"tool_call_start", "invoke", "tool_call_complete"}

\* the places of the tool steps of turn t in the trace
ToolPlaces(t) == {j \in DOMAIN trace : trace[j].turn = t /\ IsToolStep(trace[j])}

\* C17: decoding and tool execution do not overlap.  A model call is followed
\* by the end of its stream before anything else happens; every step of a
\* tool call of turn t comes after the end of the stream of turn t; and when
\* the model call of turn t+1 starts, every tool call of turn t has been
\* invoked and has completed, and none of its steps comes later.
C17_NoOverlap ==
    /\ \A j \in DOMAIN trace :
          (trace[j].op = "chat_completion" /\ j < Len(trace)) =>
              trace[j + 1] = Step("stream_end", trace[j].turn, "")
    /\ \A t \in 1..modelCalls :
          LET steps == ToolPlaces(t)
              ends  == Places("stream_end", t)
              next  == Places("chat_completion", t + 1)
          IN  /\ steps # {} => (ends # {} /\ \A j \in steps : \A e \in ends : e < j)
              /\ next # {} =>
                    /\ t \in ExecutedTurns
                    /\ \A j \in steps : \A m \in next : j < m
                    /\ Cardinality({j \in steps : trace[j].op = "invoke"}) = Len(turnCalls[t])
                    /\ Cardinality({j \in steps : trace[j].op = "tool_call_complete"})
                          = Len(turnCalls[t])

\* C17 witness: the model was called again after a turn with two tool calls
C17_Witness ==
    \E t \in ExecutedTurns :
        /\ Len(turnCalls[t]) = 2
        /\ Places("chat_completion", t + 1) # {}
        /\ Places("stream_end", t + 1) # {}

\* the place of the assistant message of turn t in the conversation
AssistantPlace(t) ==
    CHOOSE p \in DOMAIN messages :
        /\ messages[p].role = "assistant"
        /\ Cardinality({q \in 1..(p - 1) : messages[q].role = "assistant"}) = t - 1

\* C18: once the n tool calls of a turn are through, the conversation holds,
\* right after the turn's assistant message, n tool messages in call order,
\* each with the call's id and the rendered result; they were appended after
\* the completion of the turn's last call and before the next model call; and
\* while the calls of a turn are under way none of its tool messages is there.
C18_ToolMessagesAfterAllCalls ==
    \A t \in ExecutedTurns :
        LET calls  == turnCalls[t]
            n      == Len(calls)
            compls == EventsOfTurn("tool_call_complete", t)
            adds   == StepsOf("add_tool_result", t)
            a      == AssistantPlace(t)
            added  == Places("add_tool_result", t)
            done   == Places("tool_call_complete", t)
            next   == Places("chat_completion", t + 1)
        IN  IF Through(t)
            THEN /\ Len(adds) = n
                 /\ \A i \in 1..n : adds[i].call_id = calls[i].call_id
                 /\ \A p \in added :
                       /\ \A c \in done : c < p
                       /\ \A m \in next : p < m
                 /\ Len(messages) >= a + n
                 /\ \A i \in 1..n :
                       /\ messages[a + i].role = "tool"
                       /\ messages[a + i].tool_call_id = calls[i].call_id
                       /\ messages[a + i].content = Rendered(compls[i].result)
                 /\ Len(messages) > a + n => messages[a + n + 1].role = "assistant"
            ELSE /\ adds = <<>>
                 /\ Len(messages) = a

\* C18 witness: a turn with two calls, one of them failed, is through and the
\* model was called again
C18_Witness ==
    \E t \in ExecutedTurns :
        /\ Through(t)
        /\ Len(turnCalls[t]) = 2
        /\ \E i \in 1..2 : ~EventsOfTurn("tool_call_complete", t)[i].result.success
        /\ modelCalls > t
        /\ Len(StepsOf("add_tool_result", t)) = 2

RECURSIVE Concat(_)
Concat(ss) == IF ss = <<>> THEN "" ELSE Head(ss) \o Concat(Tail(ss))

\* the text the model gave in turn t: its text deltas, in order
TurnText(t) ==
    LET ds == SelectSeq(events, LAMBDA e : e.type = "text_delta" /\ e.turn = t
                                           /\ e.content # LoopNotice)
    IN  Concat([i \in DOMAIN ds |-> ds[i].content])

Assistants == SelectSeq(messages, LAMBDA m : m.role = "assistant")

\* C19: every turn appends one assistant message, after the end of its stream
\* and before the loop notice and every tool step of the turn; the message
\* carries the text of the turn and one record (id, name, arguments as JSON
\* text) per collected tool call, in collection order; so also in a turn with
\* an Error event and in a turn that loop detection halts.
C19_OneAssistantMessagePerTurn ==
    /\ \A t \in 1..modelCalls :
          LET appends == Places("add_assistant_message", t)
              ends    == Places("stream_end", t)
              later   == ToolPlaces(t) \cup Places("loop_notice", t)
          IN  /\ Cardinality(appends) = 1
              /\ \A p \in appends : \E e \in ends : e < p
              /\ \A j \in later : \A p \in appends : p < j
    /\ LET msgs == Assistants
       IN  /\ Len(msgs) = modelCalls
           /\ \A t \in DOMAIN msgs :
                 LET m == msgs[t]
                 IN  /\ t \in DOMAIN turnCalls
                     /\ m.content = TurnText(t)
                     /\ Len(m.tool_calls) = Len(turnCalls[t])
                     /\ \A i \in DOMAIN turnCalls[t] :
                           /\ m.tool_calls[i].id = turnCalls[t][i].call_id
                           /\ m.tool_calls[i].name = turnCalls[t][i].name
                           /\ m.tool_calls[i].arguments = json_dumps(turnCalls[t][i].arguments)

\* a reported final answer against a turn's text: the same, or nothing
\* reported where the text is empty
SameText(reported, text) == reported = text \/ (text = "" /\ reported = None)

\* C20: when the last turn of a run gave no tool calls the run has ended in
\* that turn, without a further model call, and agent_end reports the text of
\* that turn, also when it is empty and earlier turns gave text.
C20_FinalAnswerIsLastTurnText ==
    (turnCalls # <<>> /\ turnCalls[Len(turnCalls)] = <<>>) =>
        /\ apc = "done"
        /\ modelCalls = Len(turnCalls)
        /\ events[Len(events)].type = "agent_end"
        /\ SameText(events[Len(events)].content, TurnText(Len(turnCalls)))

\* the text of the latest turn that gave some text, None when no turn did
LastText ==
    LET ts == {t \in DOMAIN turnCalls : TurnText(t) # ""}
    IN  IF ts = {} THEN None
        ELSE TurnText(CHOOSE t \in ts : \A u \in ts : u <= t)

\* C21: when each of the max_turns turns of a run gave tool calls and no loop
\* was detected, then once the calls of the last turn are through the run has
\* ended after exactly max_turns model calls: the calls of the last turn were
\* invoked and their tool messages are the last of the conversation, the last
\* completion is directly followed by agent_end (nothing is emitted for the
\* bound), and agent_end carries the latest text of the run, or none.
C21_BoundEndsNormally ==
    (Len(turnCalls) = MaxTurns /\ apc # "exec" /\ ExecutedTurns = 1..MaxTurns) =>
        LET last == turnCalls[MaxTurns]
            n    == Len(last)
            inv  == SelectSeq(invoked, LAMBDA x : x.turn = MaxTurns)
            m    == Len(messages)
            k    == Len(events)
        IN  /\ apc = "done"
            /\ modelCalls = MaxTurns
            /\ turn_count = MaxTurns
            /\ [i \in DOMAIN inv |-> inv[i].call_id] = [i \in DOMAIN last |-> last[i].call_id]
            /\ \A i \in 1..n :
                  /\ messages[m - n + i].role = "tool"
                  /\ messages[m - n + i].tool_call_id = last[i].call_id
            /\ events[k].type = "agent_end"
            /\ events[k - 1].type = "tool_call_complete"
            /\ events[k - 1].call_id = last[n].call_id
            /\ events[k].content = LastText

\* C21 witness: a run ended by the bound, every turn with executed tool calls,
\* with some text accumulated in an earlier turn than the last
C21_Witness ==
    /\ apc = "done"
    /\ Len(turnCalls) = MaxTurns
    /\ ExecutedTurns = 1..MaxTurns
    /\ events[Len(events)].content = "Hi"
    /\ TurnText(MaxTurns) = ""

\* the events of one type among the StreamEvents a model call gave
ReceivedOf(ty, t) == SelectSeq(received[t], LAMBDA e : e.type = ty)

\* C22: each Error event a turn received from the decoder is surfaced as one
\* agent_error of that turn with its text, and the turn's assistant message
\* still has all the text deltas the turn received as its content and one
\* record per tool call it received, whether an Error came in between or not.
C22_ErrorKeepsPartialResponse ==
    /\ \A t \in DOMAIN received :
          LET errs  == ReceivedOf("ERROR", t)
              notes == EventsOfTurn("agent_error", t)
          IN  /\ Len(notes) = Len(errs)
              /\ \A i \in DOMAIN errs : notes[i].content = errs[i].error
    /\ \A t \in DOMAIN turnCalls :
          LET texts == ReceivedOf("TEXT_DELTA", t)
              calls == ReceivedOf("TOOL_CALL_DETAILS_COMPLETE", t)
              msg   == Assistants[t]
          IN  /\ msg.content = Concat([i \in DOMAIN texts |-> texts[i].content])
              /\ [i \in DOMAIN msg.tool_calls |-> msg.tool_calls[i].id]
                    = [i \in DOMAIN calls |-> calls[i].call_id]

\* C22 witness: a turn received the text "Hi" and then an Error; the loop
\* yielded the agent_error and wrote "Hi" into the turn's assistant message
C22_Witness ==
    \E t \in DOMAIN turnCalls :
        /\ ReceivedOf("ERROR", t) # <<>>
        /\ ReceivedOf("TEXT_DELTA", t) # <<>>
        /\ EventsOfTurn("agent_error", t) # <<>>
        /\ Assistants[t].content = "Hi"

\* C24: every agent_error the loop has yielded answers an Error event that the
\* decoder gave in the same turn, with its text; a failed invoke (unknown tool,
\* invalid parameters, execute fault, the tool's own failure) shows as a
\* tool_call_complete with success false and, once the turn's calls are
\* through, as a tool message, never as an agent_error.
C24_OnlyDecoderErrorsSurface ==
    /\ \A i \in DOMAIN events :
          events[i].type = "agent_error" =>
              \E j \in DOMAIN received[events[i].turn] :
                  /\ received[events[i].turn][j].type = "ERROR"
                  /\ received[events[i].turn][j].error = events[i].content
    /\ \A i \in DOMAIN invoked :
          ~invoked[i].result.success =>
              /\ \E j \in DOMAIN events :
                    /\ events[j].type = "tool_call_complete"
                    /\ events[j].turn = invoked[i].turn
                    /\ events[j].call_id = invoked[i].call_id
                    /\ events[j].result = invoked[i].result
                    /\ events[j].result.success = FALSE
              /\ (apc # "exec" \/ invoked[i].turn <= turn) =>
                    \E j \in DOMAIN messages :
                        /\ messages[j].role = "tool"
                        /\ messages[j].tool_call_id = invoked[i].call_id
                        /\ messages[j].content = Rendered(invoked[i].result)
              /\ ReceivedOf("ERROR", invoked[i].turn) = <<>> =>
                    EventsOfTurn("agent_error", invoked[i].turn) = <<>>

\* C24 witness: a run that ended with an unknown tool, a call with invalid
\* parameters and a call whose execute raised among its invokes, and without
\* any agent_error
C24_Witness ==
    /\ apc = "done"
    /\ \E i \in DOMAIN invoked : invoked[i].result = UnknownToolResult("nope")
    /\ \E i \in DOMAIN invoked : "validation_errors" \in invoked[i].result.metadata.keys
    /\ \E i \in DOMAIN invoked : invoked[i].result = InternalErrorResult("glob", FaultText)
    /\ EventsOf("agent_error") = <<>>

\* C26: the content queued for an invoke's result, and the content of the tool
\* message appended for it, is the result's output as it is when the result
\* has success true, and "Error: " with the error, a blank line, "Output:" and
\* the output on a line of its own when it has success false.
C26_RenderedForModel ==
    LET shown(r, txt) ==
            /\ r.success => txt = r.output
            /\ ~r.success => txt = "Error: " \o r.error \o "\n\nOutput:\n" \o r.output
        through  == SelectSeq(invoked, LAMBDA x : apc # "exec" \/ x.turn <= turn)
        current  == SelectSeq(invoked, LAMBDA x : apc = "exec" /\ x.turn = turn + 1)
        toolMsgs == SelectSeq(messages, LAMBDA m : m.role = "tool")
    IN  /\ Len(toolMsgs) = Len(through)
        /\ \A i \in DOMAIN through :
              /\ toolMsgs[i].tool_call_id = through[i].call_id
              /\ shown(through[i].result, toolMsgs[i].content)
        /\ apc = "exec" =>
              /\ Len(tool_call_results) = Len(current)
              /\ \A i \in DOMAIN current :
                    shown(current[i].result, tool_call_results[i].content)

\* C26 witness: the conversation has the tool message of a successful call,
\* with the output alone, and that of a failed call, with error and output
C26_Witness ==
    /\ \E j \in DOMAIN messages :
          messages[j].role = "tool" /\ messages[j].content = "out:glob"
    /\ \E j \in DOMAIN messages :
          messages[j].role = "tool"
            /\ messages[j].content = "Error: Unknown tool: nope\n\nOutput:\n"

\* C29: in a run whose turns each gave a signature list other than the turn
\* before and whose latest turn gave no tool call, the calls of every earlier
\* turn were invoked once each, turn by turn in the order received, no loop
\* notice was yielded, and the run has ended with agent_end carrying the text
\* of that latest turn.
C29_DifferingTurnsEndWithFinalText ==
    LET n == Len(turnCalls)
    IN  (/\ n > 0
         /\ turnCalls[n] = <<>>
         /\ \A t \in 2..n : Signatures(turnCalls[t]) # Signatures(turnCalls[t - 1])) =>
            /\ apc = "done"
            /\ \A t \in 1..n :
                  LET inv == SelectSeq(invoked, LAMBDA x : x.turn = t)
                  IN  [i \in DOMAIN inv |-> inv[i].call_id]
                        = [i \in DOMAIN turnCalls[t] |-> turnCalls[t][i].call_id]
            /\ \A i \in DOMAIN invoked : i > 1 => invoked[i - 1].turn <= invoked[i].turn
            /\ LoopNotices = <<>>
            /\ events[Len(events)].type = "agent_end"
            /\ events[Len(events)].content
                  = (IF TurnText(n) = "" THEN None ELSE TurnText(n))

\* C36: whenever the loop is about to send the conversation to the model or a
\* run has ended, every stored assistant message with tool-call records is
\* directly followed by one tool message per record, in record order and with
\* the record's id as tool_call_id.
C36_ToolMessagesFollowRecords ==
    apc \in {"turn", "done", "aborted"} =>
        \A a \in DOMAIN messages :
            (messages[a].role = "assistant" /\ messages[a].tool_calls # <<>>) =>
                LET recs == messages[a].tool_calls
                IN  /\ a + Len(recs) <= Len(messages)
                    /\ \A i \in DOMAIN recs :
                          /\ messages[a + i].role = "tool"
                          /\ messages[a + i].tool_call_id = recs[i].id
                    /\ a + Len(recs) < Len(messages) =>
                          messages[a + Len(recs) + 1].role # "tool"

\* C40: a run has agent_start with the user's message as its first event and
\* no other agent_start; its user message is the first message of the
\* conversation, there before the first model call, and is never added again;
\* and a run that has ended (by a final answer, a decoder Error, the loop
\* notice or the turn bound) has agent_end as its last event and no other
\* agent_end.
C40_OneStartOneEnd ==
    LET starts == {i \in DOMAIN events : events[i].type = "agent_start"}
        ends   == {i \in DOMAIN events : events[i].type = "agent_end"}
        users  == {i \in DOMAIN messages : messages[i].role = "user"}
    IN  /\ apc # "idle" =>
              /\ starts = {1}
              /\ users = {1}
              /\ messages[1].content = events[1].content
              /\ Len(trace) > 0 => trace[1].op = "chat_completion"
              /\ modelCalls = 0 => Len(messages) = 1
        /\ apc = "done" => ends = {Len(events)}
        /\ apc # "done" => ends = {}

\* C40 witness: a run that executed a tool call and then ended on a decoder
\* Error, with agent_end after the agent_error
C40_Witness ==
    /\ apc = "done"
    /\ invoked # <<>>
    /\ Len(events) > 2
    /\ events[Len(events) - 1].type = "agent_error"
    /\ events[Len(events)].type = "agent_end"

(***************************************************************************)
(* Properties of a session of several runs (checked under SpecSession)     *)
(***************************************************************************)

\* C23: in every state of a session, several runs on the same Agent included,
\* the session turn counter is the number of decoder calls the loop has made
\* and is at most max_turns; each step leaves it or adds one to it.
C23_TurnCounterBounded ==
    /\ [](turn_count = modelCalls /\ turn_count <= MaxTurns)
    /\ [][turn_count' \in {turn_count, turn_count + 1}]_vars

\* the events a step has added
NewEvents == SubSeq(events', Len(events) + 1, Len(events'))

\* C38: a step yields the loop notice exactly when it is a model call whose
\* turn gave tool calls and the run already has a turn before it with the same
\* names and argument mappings in the same order (whatever the call ids); so
\* no first turn of a run yields it, whatever the run before ended with, and
\* a run that has ended on a turn with tool calls other than those of the
\* turn before has ended at max_turns.
C38_NoticeOnlyOnRepeat ==
    /\ [][(\E i \in DOMAIN NewEvents :
              NewEvents[i].type = "text_delta" /\ NewEvents[i].content = LoopNotice)
          <=> (/\ modelCalls' = modelCalls + 1
               /\ turnCalls # <<>>
               /\ Len(turnCalls') = Len(turnCalls) + 1
               /\ turnCalls'[Len(turnCalls')] # <<>>
               /\ SameCallList(turnCalls[Len(turnCalls)], turnCalls'[Len(turnCalls')]))]_vars
    /\ []((/\ apc = "done"
           /\ turnCalls # <<>>
           /\ turnCalls[Len(turnCalls)] # <<>>
           /\ (Len(turnCalls) > 1 =>
                 ~SameCallList(turnCalls[Len(turnCalls) - 1], turnCalls[Len(turnCalls)])))
          => Len(turnCalls) = MaxTurns)

\* C38 witness: the first run was halted by the notice on a glob call repeated
\* under another call id; the second run's first turn gave the glob call again
\* and went on to execute it
C38_Witness ==
    /\ runs = 2
    /\ apc = "exec"
    /\ Len(turnCalls) = 1
    /\ turnCalls[1][1].name = "glob"
    /\ Len(LoopNotices) = 1
    /\ \E j \in DOMAIN messages :
          /\ j > 3
          /\ messages[j].role = "user"
          /\ messages[j - 1].role = "assistant"
          /\ messages[j - 1].tool_calls # <<>>
          /\ messages[j - 1].tool_calls[1].id = "c2"
          /\ messages[j - 3].role = "assistant"
          /\ messages[j - 3].tool_calls # <<>>
          /\ messages[j - 3].tool_calls[1].id = "c1"

(***************************************************************************)
(* Evaluation loop (evals/tool_order_eval.py)                              *)
(***************************************************************************)

\* a set of indices as a sequence, ascending
RECURSIVE Ascending(_)
Ascending(S) ==
    IF S = {} THEN <<>>
    ELSE LET m == CHOOSE x \in S : \A y \in S : x <= y
         IN  <<m>> \o Ascending(S \ {m})

\* response.choices[0].message of the call with stream=False: the content and
\* the tool calls (id, function.name, function.arguments) of the response
\* whose streamed form is the chunk sequence, the tool calls by index
MessageOf(chunks) ==
    LET frs  == WireFragments(chunks)
        idxs == Ascending({frs[i].index : i \in DOMAIN frs})
        At(idx)  == SelectSeq(frs, LAMBDA d : d.index = idx)
        Ids(idx) == SelectSeq(At(idx), LAMBDA d : d.id # "")
        Names(idx) == SelectSeq(At(idx), LAMBDA d : d.has_function /\ d.name # "")
    IN  [content |-> Concat([i \in DOMAIN chunks |->
                               IF chunks[i].has_choice THEN chunks[i].content ELSE ""]),
         tool_calls |->
            [k \in DOMAIN idxs |->
                [id |-> IF Ids(idxs[k]) = <<>> THEN "" ELSE Ids(idxs[k])[1].id,
                 name |-> Concat([i \in DOMAIN Names(idxs[k]) |-> Names(idxs[k])[i].name]),
                 arguments |-> Unsplit(chunks, idxs[k])]]]

\* run_agent_for_eval, "Parse tool calls from the response"
eval_tool_calls(message) ==
    [i \in DOMAIN message.tool_calls |->
        [call_id |-> message.tool_calls[i].id, name |-> message.tool_calls[i].name,
         arguments |-> parse_tool_call_arguments(message.tool_calls[i].arguments)]]

\* one iteration of run_agent_for_eval's loop on a context and the message of
\* the response: the assistant message it adds, whether it breaks, and the
\* (name, arguments) of the invokes of its for loop, in order
run_agent_for_eval(msgs, message) ==
    LET tcs == eval_tool_calls(message)
    IN  [messages |-> Append(msgs, MessageItem("assistant", message.content, None,
                                               ToolCallRecords(tcs))),
         tool_calls |-> tcs,
         invokes |-> [i \in DOMAIN tcs |-> <<tcs[i].name, tcs[i].arguments>>],
         break |-> tcs = <<>>]

(***************************************************************************)
(* Properties of a turn end to end (checked under SpecTurn)                *)
(***************************************************************************)

IsPrefix(a, b) == Len(a) <= Len(b) /\ SubSeq(b, 1, Len(a)) = a

\* the texts that are the whole of a JSON object
ParseableTexts == {"{\"pattern\":\"*\"}", "{\"path\":\"a.py\"}"}

\* the contents of the TextDelta events of an event sequence, in order
TextsOf(evs) ==
    LET ts == SelectSeq(evs, LAMBDA e : e.type = "TEXT_DELTA")
    IN  [i \in DOMAIN ts |-> ts[i].content]

\* C32: when the stream has ended, every index whose buffer is not the text of
\* a JSON object has its ToolCallComplete, with the empty mapping, and the
\* call has ended with MessageComplete without any Error event; the loop then
\* invokes the registry for it, and for a tool with required fields the
\* result is the validation failure, not a result of execute.
C32_UnparsedArgumentsReachValidation ==
    /\ (dpc = "done" /\ dout # <<>> /\ dout[Len(dout)].type = "MESSAGE_COMPLETE") =>
          /\ \A i \in DOMAIN dout : dout[i].type # "ERROR"
          /\ \A k \in DOMAIN tool_calls :
                tool_calls[k].arguments \notin ParseableTexts =>
                    /\ \E i \in DOMAIN dout :
                          /\ dout[i].type = "TOOL_CALL_DETAILS_COMPLETE"
                          /\ dout[i].call_id = tool_calls[k].id
                          /\ dout[i].name = tool_calls[k].name
                          /\ dout[i].arguments = <<>>
                    /\ (modelCalls = 1 /\ apc \in {"turn", "done"}) =>
                          \E j \in DOMAIN invoked : invoked[j].call_id = tool_calls[k].id
                    /\ \A j \in DOMAIN invoked :
                          (invoked[j].call_id = tool_calls[k].id
                             /\ invoked[j].name \in {"glob", "write_file"}) =>
                              /\ invoked[j].result.success = FALSE
                              /\ "validation_errors" \in invoked[j].result.metadata.keys
                              /\ invoked[j].result.output = ""
    /\ dpc = "raised" => lastFault = "cancel"

\* C32 witness: the glob call's buffer stayed at an unfinished object; the call
\* ended with MessageComplete and the invoke of glob came back from validation
C32_Witness ==
    /\ dpc = "done"
    /\ dout[Len(dout)].type = "MESSAGE_COMPLETE"
    /\ \E k \in DOMAIN tool_calls : tool_calls[k].arguments = "{\"pattern\":"
    /\ \E j \in DOMAIN invoked :
          /\ invoked[j].call_id = "c0"
          /\ invoked[j].name = "glob"
          /\ "validation_errors" \in invoked[j].result.metadata.keys

\* the events a step of the call has yielded
NewOut == SubSeq(dout', Len(dout) + 1, Len(dout'))

\* C33: what the call has yielded is never taken back; a step that receives a
\* chunk with a non-empty text yields one TextDelta with that text, before
\* the chunk's tool-call events, and no other step yields a TextDelta; the
\* loop's text_delta events of the turn carry the TextDelta contents in order
\* and the assistant message of the turn has their concatenation as content.
C33_TextForwardedVerbatim ==
    /\ [][/\ IsPrefix(dout, dout')
          /\ IF Len(wire') = Len(wire) + 1
                   /\ wire'[Len(wire')].has_choice /\ wire'[Len(wire')].content # ""
             THEN /\ TextsOf(NewOut) = <<wire'[Len(wire')].content>>
                  /\ NewOut[1].type = "TEXT_DELTA"
             ELSE TextsOf(NewOut) = <<>>]_vars
    /\ [](modelCalls = 1 =>
            /\ received[1] = dout
            /\ LET ds == SelectSeq(events, LAMBDA e : e.type = "text_delta"
                                                      /\ e.content # LoopNotice)
               IN  [i \in DOMAIN ds |-> ds[i].content] = TextsOf(dout)
            /\ apc # "aborted" =>
                  /\ Len(Assistants) = 1
                  /\ Assistants[1].content = Concat(TextsOf(dout)))

\* C33 witness: the chunks "Hi" and "!" came in that order in one attempt and
\* the assistant message has "Hi!"
C33_Witness ==
    /\ modelCalls = 1
    /\ faultLog = <<>>
    /\ TextsOf(dout) = <<"Hi", "!">>
    /\ Len(Assistants) = 1
    /\ Assistants[1].content = "Hi!"

\* a streamed response as the endpoint sends it: the first fragment at an
\* index carries the id and the name, the later ones carry neither, and the
\* indices open in ascending order from 0
StreamedInOrder(chunks) ==
    LET frs == WireFragments(chunks)
    IN  \A i \in DOMAIN frs :
           IF \E j \in 1..(i - 1) : frs[j].index = frs[i].index
           THEN frs[i].id = "" /\ frs[i].name = ""
           ELSE /\ frs[i].id # "" /\ frs[i].has_function /\ frs[i].name # ""
                /\ frs[i].index = Cardinality({frs[j].index : j \in 1..(i - 1)})

\* C35: after the first turn of a run whose model call met no fault and gave
\* no Error event, on a response streamed in order, the loop has left the assistant message that one iteration
\* of run_agent_for_eval leaves for the same response, has collected tool
\* calls with the same (name, arguments) in the same order, and has invoked
\* the registry for them in that order.
C35_EvalMirrorsAgentLoop ==
    (modelCalls = 1 /\ faultLog = <<>> /\ dpc = "done" /\ StreamedInOrder(wire)
       /\ \A i \in DOMAIN dout : dout[i].type # "ERROR") =>
        LET e == run_agent_for_eval(<<messages[1]>>, MessageOf(wire))
        IN  /\ Len(messages) >= 2
            /\ messages[2] = e.messages[2]
            /\ [i \in DOMAIN turnCalls[1] |->
                   <<turnCalls[1][i].name, turnCalls[1][i].arguments>>] = e.invokes
            /\ \A j \in DOMAIN invoked :
                   /\ j \in DOMAIN e.tool_calls
                   /\ invoked[j].call_id = e.tool_calls[j].call_id
            /\ (apc = "done" /\ invoked = <<>>) => e.break

\* C37: when a call has ended with MessageComplete, after whatever attempts
\* that failed, the TextDelta, ToolCallStart and ToolCallDelta events it has
\* yielded are those of the chunks of the attempt that succeeded, and the text
\* of the turn's assistant message is the text of that attempt alone.
C37_RetriesDoNotDuplicate ==
    (dpc = "done" /\ dout # <<>> /\ dout[Len(dout)].type = "MESSAGE_COMPLETE") =>
        LET texts  == SelectSeq([i \in DOMAIN wire |->
                                    IF wire[i].has_choice THEN wire[i].content ELSE ""],
                                LAMBDA c : c # "")
            starts == SelectSeq(dout, LAMBDA e : e.type = "TOOL_CALL_DETAILS_START")
        IN  /\ TextsOf(dout) = texts
            /\ Len(starts) <= Len(WireFragments(wire))
            /\ Len(YieldedDeltas) <= Len(WireArguments(wire))
            /\ modelCalls = 1 => Assistants[1].content = Concat(texts)

\* C39: when a call has ended with an Error event as its last event, it has
\* yielded no ToolCallComplete; the loop, once it has consumed the call, has
\* executed no tool and has ended the run in that turn: the assistant message
\* with the text received and no tool-call record is the last message, the
\* Error has been surfaced as agent_error and agent_end is the last event.
C39_ErrorTurnEndsRun ==
    (dpc = "done" /\ dout # <<>> /\ dout[Len(dout)].type = "ERROR") =>
        /\ \A i \in DOMAIN dout : dout[i].type # "TOOL_CALL_DETAILS_COMPLETE"
        /\ modelCalls = 1 =>
              /\ apc = "done"
              /\ invoked = <<>>
              /\ \A i \in DOMAIN events :
                    events[i].type \notin {"tool_call_start", "tool_call_complete"}
              /\ messages[Len(messages)]
                    = MessageItem("assistant", Concat(TextsOf(dout)), None, <<>>)
              /\ Len(Assistants) = 1
              /\ events[Len(events)].type = "agent_end"
              /\ \E i \in DOMAIN events :
                    /\ events[i].type = "agent_error"
                    /\ events[i].content = dout[Len(dout)].error

\* C39 witness: an attempt delivered a text and the first fragment of a tool
\* call and then failed with a provider error; the loop wrote the text into
\* the assistant message and ended the run
C39_Witness ==
    /\ dpc = "done"
    /\ dout[Len(dout)].type = "ERROR"
    /\ \E i \in DOMAIN dout : dout[i].type = "TOOL_CALL_DETAILS_START"
    /\ modelCalls = 1
    /\ apc = "done"
    /\ messages[Len(messages)].content = "Hi"

(***************************************************************************)
(* Properties of the context (checked under SpecContext)                   *)
(***************************************************************************)

\* whether the stored message and the rendered record are the same message
ShowsMessage(rec, m) ==
    /\ rec.role = m.role
    /\ rec.content = m.content
    /\ rec.tool_call_id \in {None, m.tool_call_id}
    /\ rec.tool_calls \in {<<>>, m.tool_calls}

\* the rendered conversation: the prompt record first when there is a prompt,
\* then one record per stored message, in the order of the store
PromptThenStore(shown, prompt, msgs) ==
    LET off == IF prompt = "" THEN 0 ELSE 1
    IN  /\ Len(shown) = Len(msgs) + off
        /\ off = 1 => (shown[1].role = "system" /\ shown[1].content = prompt)
        /\ \A i \in DOMAIN msgs : ShowsMessage(shown[i + off], msgs[i])

\* C27: get_messages returns the system prompt first (if there is one) and then
\* exactly the stored messages in insertion order, and every add call appends
\* one message and leaves the stored messages and the rendered list in place:
\* the earlier store and the earlier rendered list are prefixes of the later.
C27_AppendOnly ==
    /\ [](PromptThenStore(get_messages(system_prompt, messages), system_prompt, messages))
    /\ [][/\ Len(messages') = Len(messages) + 1
          /\ IsPrefix(messages, messages')
          /\ IsPrefix(get_messages(system_prompt, messages),
                      get_messages(system_prompt', messages'))]_vars

\* C27 witness: a prompt and a user, an assistant and a tool message added in
\* that order, rendered as four records
C27_Witness ==
    /\ system_prompt # ""
    /\ Len(messages) = 3
    /\ <<messages[1].role, messages[2].role, messages[3].role>> = <<"user", "assistant", "tool">>
    /\ Len(get_messages(system_prompt, messages)) = 4

\* C28: a rendered record carries tool_call_id only if its role is tool, and
\* tool_calls only if it is the record of an assistant message added with at
\* least one tool call; user and system records carry role and content only.
C28_OptionalKeys ==
    LET shown == get_messages(system_prompt, messages)
        off   == Len(shown) - Len(messages)
        has(i, k) == \E j \in DOMAIN shown[i].keys : shown[i].keys[j] = k
    IN  \A i \in DOMAIN shown :
          /\ has(i, "tool_call_id") => shown[i].role = "tool"
          /\ has(i, "tool_calls") =>
                /\ shown[i].role = "assistant"
                /\ i > off
                /\ messages[i - off].tool_calls # <<>>
          /\ shown[i].role \in {"user", "system"} => shown[i].keys = <<"role", "content">>

\* C28 witness: a rendered conversation with a prompt, a user record, an
\* assistant record with tool calls, one without, and a tool record with an id
C28_Witness ==
    LET shown == get_messages(system_prompt, messages)
    IN  /\ Len(shown) = 4
        /\ shown[1].role = "system"
        /\ \E i \in DOMAIN shown : shown[i].keys = <<"role", "tool_calls", "content">>
        /\ \E i \in DOMAIN shown : shown[i].role = "assistant" /\ shown[i].keys = <<"role", "content">>
        /\ \E i \in DOMAIN shown : shown[i].keys = <<"role", "tool_call_id", "content">>

====
